---- MODULE Spec2Model ----
(***************************************************************************)
(* libusmc: the USMC stepper-motor controller library (USMC / USMC_impl).  *)
(*                                                                         *)
(* The registry (_dev, _locks, _serial, _version, _speed, _params, _mode,  *)
(* _start_params), the per-device lock discipline of the usmc_* USB calls  *)
(* and probeDevices are modelled as a state machine of caller threads.     *)
(* float fields are carried as integers in thousandths of their unit.      *)
(***************************************************************************)
EXTENDS Integers, Sequences, FiniteSets, TLC

(* ------------------------------------------------------------------ *)
(* Bounds of the model                                                  *)
(* ------------------------------------------------------------------ *)
NThreads == 2
NDev == 2
NCand == 3
MaxCalls == 2
MaxLifeCalls == 3
MaxCodecCalls == 1

Threads == 1..NThreads
Cands == 1..NCand

(* ------------------------------------------------------------------ *)
(* Result codes (libusmc.h)                                             *)
(* ------------------------------------------------------------------ *)
ERR_SUCCESS == 0
ERR_USB_NO_DEVICE == -4
ERR_USB_TIMEOUT == -7
ERR_INVALID_ID == -40
ERR_INVALID_PARAM == -41
ERR_INVALID_VALUE == -42

UsbErrors == {ERR_USB_NO_DEVICE, ERR_USB_TIMEOUT}
ValidationErrors == {ERR_INVALID_ID, ERR_INVALID_PARAM, ERR_INVALID_VALUE}

NoThread == 0

(* ------------------------------------------------------------------ *)
(* Integer helpers of libusmc_impl.cpp                                  *)
(* ------------------------------------------------------------------ *)
U8 == 2^8
U16 == 2^16

(* a 32-bit value is carried as its two 16-bit words *)
DWord(n) == [hi |-> (n \div U16) % U16, lo |-> n % U16]
(* variant: the destination sent as it is *)
DWordTimes8_Unscaled(n) == DWord(n)
(* (uint32_t)(n * 8) *)
DWordTimes8(n) == [hi |-> (n \div 8192) % U16, lo |-> (n % 8192) * 8]

HIBYTE(w) == (w % U16) \div 256
LOBYTE(w) == w % 256
PACK_WORD(w) == HIBYTE(w) + LOBYTE(w) * 256
HIWORD(dw) == dw.hi
LOWORD(dw) == dw.lo
(* HIBYTE(HIWORD) | LOBYTE(HIWORD)<<8 | HIBYTE(LOWORD)<<16 | LOBYTE(LOWORD)<<24 *)
PACK_DWORD(dw) ==
    [hi |-> HIBYTE(LOWORD(dw)) + LOBYTE(LOWORD(dw)) * 256,
     lo |-> HIBYTE(HIWORD(dw)) + LOBYTE(HIWORD(dw)) * 256]

(* a float is carried in thousandths; NaN is the one float that is no number: every
   "<" and ">" with it is false *)
NaN == -999999999
Less(a, b) == a # NaN /\ b # NaN /\ a < b
Greater(a, b) == a # NaN /\ b # NaN /\ a > b

clamp(val, min, max) ==
    IF Greater(val, max) THEN max ELSE IF Less(val, min) THEN min ELSE val

(* what an object holds that the code never wrote: two bits of freedom per usmc_*
   call, since the stack a local lands on differs from call to call *)
Indeterminate == [b1 : {0, 1}, b2 : {0, 1}]
ZeroStack == [b1 |-> 0, b2 |-> 0]

(* what a float-to-integer conversion yields for a value the destination type cannot
   hold. The language leaves it undefined; the instructions the compiler emitted for
   the cast decide it, the same way in every call of one build *)
CastOutcomes == {0, 1}

(* (uint8_t) x and (uint16_t) x of a float x already cut to its integer part: defined
   only when the value fits *)
FitsU8(x) == x # NaN /\ x >= 0 /\ x < U8
FitsU16(x) == x # NaN /\ x >= 0 /\ x < U16
ToU8(x, c) == IF FitsU8(x) THEN x ELSE (U8 - 1) * c
ToU16(x, c) == IF FitsU16(x) THEN x ELSE (U16 - 1) * c
(* (int) x of such a float: 0 or INT_MIN when x is NaN *)
ToInt(x, c) == IF x = NaN THEN c * (-2147483647 - 1) ELSE x

Bit(b) == IF b THEN 1 ELSE 0

(* floor(n/d + 1/2) for n >= 0, d > 0: the "(int)(x + 0.5f)" idiom *)
RoundDiv(n, d) == (2 * n + d) \div (2 * d)

(* ------------------------------------------------------------------ *)
(* USMC_Mode, USMC_Parameters, USMC_StartParameters (libusmc.h)         *)
(* ------------------------------------------------------------------ *)
ModeLoFields ==
    {"PMode", "PReg", "ResetD", "EMReset", "Tr1T", "Tr2T", "RotTrT", "TrSwap",
     "Tr1En", "Tr2En", "RotTeEn", "RotTrOp"}
ModeHiFields ==
    {"Butt1T", "Butt2T", "ResetRT", "SyncOUTEn", "SyncOUTR", "SyncINOp",
     "SyncCount", "SyncInvert", "EncoderEn", "EncoderInv", "ResBEnc", "ResEnc"}
ModeFields == ModeLoFields \cup ModeHiFields

ZeroMode == [f \in ModeFields |-> IF f = "SyncCount" THEN 0 ELSE FALSE]

ParamLoFields ==
    {"AccelT", "DecelT", "PTimeout", "BTimeout1", "BTimeout2", "BTimeout3",
     "BTimeout4", "BTimeoutR", "BTimeoutD", "MinP", "BTO1P"}
ParamHiFields ==
    {"BTO2P", "BTO3P", "BTO4P", "MaxLoft", "StartPos", "RTDelta", "RTMinError",
     "MaxTemp", "SynOUTP", "LoftPeriod", "EncMult"}
ParamFields == ParamLoFields \cup ParamHiFields

ZeroParams == [f \in ParamFields |-> 0]

StartFields ==
    {"SDivisor", "DefDir", "LoftEn", "SlStart", "WSyncIN", "SyncOUTR", "ForceLoft"}

ZeroStart == [f \in StartFields |-> IF f = "SDivisor" THEN 0 ELSE FALSE]

(* initDefaults: memset 0, then the listed fields *)
DefaultMode ==
    [ZeroMode EXCEPT !["PReg"] = TRUE, !["Tr1En"] = TRUE, !["Tr2En"] = TRUE,
                     !["RotTrOp"] = TRUE, !["SyncOUTEn"] = TRUE,
                     !["SyncINOp"] = TRUE, !["SyncCount"] = 4]

DefaultParams ==
    [ZeroParams EXCEPT !["MaxTemp"] = 70000, !["AccelT"] = 200000,
                       !["DecelT"] = 200000, !["BTimeout1"] = 500000,
                       !["BTimeout2"] = 500000, !["BTimeout3"] = 500000,
                       !["BTimeout4"] = 500000, !["BTO1P"] = 200000,
                       !["BTO2P"] = 300000, !["BTO3P"] = 400000,
                       !["BTO4P"] = 500000, !["MinP"] = 500000,
                       !["BTimeoutR"] = 500000, !["LoftPeriod"] = 32000,
                       !["RTDelta"] = 200, !["RTMinError"] = 15,
                       !["EncMult"] = 2500, !["MaxLoft"] = 32,
                       !["PTimeout"] = 100000, !["SynOUTP"] = 1,
                       !["StartPos"] = 0]

DefaultStart ==
    [ZeroStart EXCEPT !["SDivisor"] = 8, !["LoftEn"] = TRUE, !["SlStart"] = TRUE]

DefaultSpeed == 200000

(* ------------------------------------------------------------------ *)
(* Packets built by the usmc_* calls (usmctypes.h, libusmc_impl.cpp)    *)
(* ------------------------------------------------------------------ *)
FW_TEMP == 9216    \* 0x2400
FW_STARTPOS == 9223    \* 0x2407

(* 65536.0f - num/clamp(v, lo, hi) + 0.5f cut to its integer part; v, lo, hi in
   thousandths *)
PeriodOf(num, v, lo, hi) ==
    LET c == clamp(v, lo, hi)
    IN  IF c = NaN THEN NaN ELSE 65536 + ((c - 2000 * num) \div (2 * c))

(* x / d + 0.5f cut to its integer part, x in thousandths, d in thousandths *)
FloatRound(x, d) == IF x = NaN THEN NaN ELSE RoundDiv(x, d)

(* clamp(v, 1.0f, 9961.0f) / 0.152f + 0.5f *)
TicksOf(v) == FloatRound(clamp(v, 1000, 9961000), 152)

(* 5x/(10+x)*65536/3.3 + 0.5 with x = 10*exp(3950*(1/(t+273) - 1/298)), cut to its
   integer part, tabulated for the MaxTemp values the inputs of this model carry *)
OldTempRaw(t) ==
    CASE t = 0 -> 76556
      [] t = 25000 -> 49648
      [] t = 70000 -> 14839
      [] t = 100000 -> 6460

(* the double t of usmc_set_parameters before "(uint16_t) t" *)
MaxTempRaw(version, maxTemp) ==
    LET t == clamp(maxTemp, 0, 100000)
    IN  IF t = NaN THEN NaN
        ELSE IF version < FW_TEMP THEN OldTempRaw(t)
        ELSE RoundDiv((t + 50000) * 4096, 20625)

(* MODE_PACKET as usmc_set_mode fills it; BUTSWAP (bit 6 of byte 1) is never assigned
   and setModeData has no initialiser *)
usmc_set_mode_packet(mode, ub) ==
    [ byte0 |-> Bit(mode["PMode"]) + 2 * Bit(mode["PReg"]) + 4 * Bit(mode["ResetD"])
                + 8 * Bit(mode["EMReset"]) + 16 * Bit(mode["Tr1T"])
                + 32 * Bit(mode["Tr2T"]) + 64 * Bit(mode["RotTrT"])
                + 128 * Bit(mode["TrSwap"]),
      byte1 |-> Bit(mode["Tr1En"]) + 2 * Bit(mode["Tr2En"]) + 4 * Bit(mode["RotTeEn"])
                + 8 * Bit(mode["RotTrOp"]) + 16 * Bit(mode["Butt1T"])
                + 32 * Bit(mode["Butt2T"]) + 64 * ub.b1 + 128 * Bit(mode["ResetRT"]),
      byte2 |-> Bit(mode["SyncOUTEn"]) + 2 * Bit(mode["SyncOUTR"])
                + 4 * Bit(mode["SyncINOp"]) + 8 * Bit(mode["SyncInvert"])
                + 16 * Bit(mode["EncoderEn"]) + 32 * Bit(mode["EncoderInv"])
                + 64 * Bit(mode["ResBEnc"]) + 128 * Bit(mode["ResEnc"]),
      SYNCCOUNT |-> PACK_DWORD(DWord(mode["SyncCount"])).lo ]

(* the value each field of PARAMETERS_PACKET is computed to, before the cast or the
   assignment that narrows it to the field; STARTPOS is StartPos * 8 in 32 bits, with
   the part of the product beyond 32 bits as "over" *)
usmc_set_parameters_values(version, params, c) ==
    [ DELAY1 |-> clamp(ToInt(FloatRound(params["AccelT"], 98000), c), 1, 15),
      DELAY2 |-> clamp(ToInt(FloatRound(params["DecelT"], 98000), c), 1, 15),
      RefINTimeout |-> TicksOf(params["PTimeout"]),
      BTIMEOUT1 |-> TicksOf(params["BTimeout1"]),
      BTIMEOUT2 |-> TicksOf(params["BTimeout2"]),
      BTIMEOUT3 |-> TicksOf(params["BTimeout3"]),
      BTIMEOUT4 |-> TicksOf(params["BTimeout4"]),
      BTIMEOUTR |-> TicksOf(params["BTimeoutR"]),
      BTIMEOUTD |-> TicksOf(params["BTimeoutD"]),
      MINPERIOD |-> PeriodOf(125000, params["MinP"], 2000, 625000),
      BTO1P |-> PeriodOf(125000, params["BTO1P"], 2000, 625000),
      BTO2P |-> PeriodOf(125000, params["BTO2P"], 2000, 625000),
      BTO3P |-> PeriodOf(125000, params["BTO3P"], 2000, 625000),
      BTO4P |-> PeriodOf(125000, params["BTO4P"], 2000, 625000),
      MAX_LOFT |-> clamp(params["MaxLoft"], 1, 1023) * 64,
      STARTPOS |-> IF version < FW_STARTPOS THEN [over |-> 0, dw |-> DWord(0)]
                   ELSE [over |-> params["StartPos"] \div 536870912,
                         dw |-> [DWordTimes8(params["StartPos"])
                                   EXCEPT !.lo = @ - (@ % 256)]],
      RTDelta |-> clamp(params["RTDelta"], 4, 1023) * 64,
      RTMinError |-> clamp(params["RTMinError"], 4, 1023) * 64,
      MaxTemp |-> MaxTempRaw(version, params["MaxTemp"]),
      SynOUTP |-> params["SynOUTP"],
      LoftPeriod |-> IF params["LoftPeriod"] = 0 THEN 0
                     ELSE PeriodOf(125000, params["LoftPeriod"], 16000, 5000000),
      EncVSCP |-> FloatRound(params["EncMult"] * 4, 1000) ]

(* PARAMETERS_PACKET as usmc_set_parameters fills it: each value narrowed to its
   field, the 16- and 32-bit fields byte-swapped *)
usmc_set_parameters_packet(version, params, c) ==
    LET v == usmc_set_parameters_values(version, params, c)
        Word(f) == PACK_WORD(ToU16(v[f], c))
    IN  [ DELAY1 |-> v.DELAY1 % U8,
          DELAY2 |-> v.DELAY2 % U8,
          RefINTimeout |-> ToU16(v.RefINTimeout, c),
          BTIMEOUT1 |-> Word("BTIMEOUT1"),
          BTIMEOUT2 |-> Word("BTIMEOUT2"),
          BTIMEOUT3 |-> Word("BTIMEOUT3"),
          BTIMEOUT4 |-> Word("BTIMEOUT4"),
          BTIMEOUTR |-> Word("BTIMEOUTR"),
          BTIMEOUTD |-> Word("BTIMEOUTD"),
          MINPERIOD |-> Word("MINPERIOD"),
          BTO1P |-> Word("BTO1P"),
          BTO2P |-> Word("BTO2P"),
          BTO3P |-> Word("BTO3P"),
          BTO4P |-> Word("BTO4P"),
          MAX_LOFT |-> PACK_WORD(v.MAX_LOFT % U16),
          STARTPOS |-> PACK_DWORD(v.STARTPOS.dw),
          RTDelta |-> PACK_WORD(v.RTDelta % U16),
          RTMinError |-> PACK_WORD(v.RTMinError % U16),
          MaxTemp |-> Word("MaxTemp"),
          SynOUTP |-> v.SynOUTP % U8,
          LoftPeriod |-> IF params["LoftPeriod"] = 0 THEN 0 ELSE Word("LoftPeriod"),
          EncVSCP |-> ToU8(v.EncVSCP, c) ]

(* usmc_set_parameters converts a value of this record that the destination type
   cannot hold: a NaN to int, or a float beyond the field to uint8_t / uint16_t *)
usmc_set_parameters_undefined(version, params) ==
    LET v == usmc_set_parameters_values(version, params, 0)
    IN  \/ params["AccelT"] = NaN \/ params["DecelT"] = NaN
        \/ \E f \in {"RefINTimeout", "BTIMEOUT1", "BTIMEOUT2", "BTIMEOUT3", "BTIMEOUT4",
                      "BTIMEOUTR", "BTIMEOUTD", "MINPERIOD", "BTO1P", "BTO2P", "BTO3P",
                      "BTO4P", "MaxTemp"} : ~FitsU16(v[f])
        \/ (params["LoftPeriod"] # 0 /\ ~FitsU16(v.LoftPeriod))
        \/ ~FitsU8(v.EncVSCP)

(* the timer period of usmc_goto before "(uint16_t)" *)
usmc_goto_period(speed) == PeriodOf(1000000, speed, 16000, 5000000)

(* GO_TO_PACKET as usmc_goto fills it; the switch on SDivisor has no default, so for
   any other divisor M1 and M2 keep what the uninitialised goToData held *)
usmc_goto_packet(position, speed, params, ub, c) ==
    [ DestPos |-> DWordTimes8(position),
      TimerPeriod |-> PACK_WORD(ToU16(usmc_goto_period(speed), c)),
      M1 |-> IF params["SDivisor"] \in {1, 2, 4, 8}
             THEN (IF params["SDivisor"] \in {2, 8} THEN 1 ELSE 0) ELSE ub.b1,
      M2 |-> IF params["SDivisor"] \in {1, 2, 4, 8}
             THEN (IF params["SDivisor"] \in {4, 8} THEN 1 ELSE 0) ELSE ub.b2,
      DEFDIR |-> Bit(params["DefDir"]),
      LOFTEN |-> Bit(params["LoftEn"]),
      SLSTRT |-> Bit(params["SlStart"]),
      WSYNCIN |-> Bit(params["WSyncIN"]),
      SYNCOUTR |-> Bit(params["SyncOUTR"]),
      FORCELOFT |-> Bit(params["ForceLoft"]) ]

(* ------------------------------------------------------------------ *)
(* State                                                                *)
(* ------------------------------------------------------------------ *)
VARIABLES
    _dev,            \* vector<libusb_device_handle*>: the candidate each handle is open on
    _locks,          \* vector<USMC_mutex*>: the thread holding each mutex, or NoThread
    _serial,         \* vector<std::string>
    _version,        \* vector<uint32_t>
    _speed,          \* vector<float>
    _params,         \* vector<USMC_Parameters*>
    _mode,           \* vector<USMC_Mode*>
    _start_params,   \* vector<USMC_StartParameters*>
    bus,             \* the USB bus: what libusb_get_device_list enumerates
    cast,            \* what an undefined float-to-integer conversion yields in this
                     \* build (CastOutcomes), Undecided until one was executed
    inflight,        \* per candidate: the threads inside libusb_control_transfer on it
    hw,              \* per candidate: the packet of each write request the controller
                     \* acknowledged last, in the order of their arrival
    th,              \* per caller thread: the call it is in and where
    probe,           \* locals of the running probeDevices: i, count, id
    ncalls,          \* calls started so far
    _instance,       \* USMC::_instance: 0 is NULL, else the n-th USMC_impl constructed
    impls,           \* the USMC_impl objects: how many were constructed, which are alive
    handles          \* libusb device handles: open and closed per candidate

regVars == <<_dev, _locks, _serial, _version, _speed, _params, _mode, _start_params>>
vars == <<_dev, _locks, _serial, _version, _speed, _params, _mode, _start_params,
          bus, cast, inflight, hw, th, probe, ncalls, _instance, impls, handles>>

(* an undefined conversion has the outcome c: the one every earlier undefined
   conversion of the run had. A call that executes none leaves the outcome open *)
Undecided == 2
Casting_PerCall(c, undefined) ==
    /\ undefined \/ c = 0
    /\ cast' = cast
Casting(c, undefined) ==
    /\ IF undefined THEN cast \in {Undecided, c} ELSE c = 0
    /\ cast' = IF undefined THEN c ELSE cast

(* vector element of a 0-based id *)
At(vec, id) == vec[id + 1]
Put(vec, id, v) == [vec EXCEPT ![id + 1] = v]
PopBack(vec) == SubSeq(vec, 1, Len(vec) - 1)

(* USMC_impl::countDevices / checkDevice *)
countDevices == Len(_dev)
checkDevice(device) == device >= 0 /\ device < Len(_dev)

NoArg == [null |-> FALSE, val |-> 0]
Ptr(v) == [null |-> FALSE, val |-> v]
NullPtr == [null |-> TRUE, val |-> 0]
NullOf(v) == [null |-> TRUE, val |-> v]

(* no reply received, no snapshot written through the output reference *)
NoReply == [none |-> TRUE]

IdleThread ==
    [pc |-> "idle", op |-> "none", fn |-> "none", device |-> 0, arg |-> NoArg,
     pkt |-> 0, res |-> 0, r |-> 0, ret |-> 0, out |-> 0, reply |-> NoReply,
     state |-> NoReply,
     issued |-> 0, acquired |-> {}, stored |-> FALSE]

NoProbe == [i |-> 0, count |-> 0, id |-> 0, matched |-> {}, failed |-> {}]
(* probe.failed: the candidates a step failed on, each with that step *)

(* the usmc_* functions and the payload length each hands to libusb *)
UsbFns ==
    {"usmc_get_version", "usmc_get_serial", "usmc_get_encoder_state", "usmc_get_state",
     "usmc_goto", "usmc_set_mode", "usmc_set_parameters", "usmc_stop"}

wLength(f) ==
    CASE f = "usmc_get_version" -> 6
      [] f = "usmc_get_serial" -> 16
      [] f = "usmc_get_encoder_state" -> 8
      [] f = "usmc_get_state" -> 11
      [] f = "usmc_goto" -> 3
      [] f = "usmc_set_mode" -> 3
      [] f = "usmc_set_parameters" -> 53
      [] f = "usmc_stop" -> 0

(* what libusb_control_transfer can return: bytes transferred, or a libusb error *)
(* the short count is modelled for the transfers of the six public wire operations *)
ShortFns == UsbFns \ {"usmc_get_version", "usmc_get_serial"}
TransferResults(f) ==
    UsbErrors \cup {wLength(f)} \cup {n \in {wLength(f) - 1} : n >= 0 /\ f \in ShortFns}

(* every usmc_* function declares "USMC_lock access_lock(_locks[id])" before its
   transfer: the mutex it names *)
(* variant: usmc_get_state without its access_lock *)
HasAccessLock_ExceptGetState(f) == f \in UsbFns \ {"usmc_get_state"}

HasAccessLock(f) == f \in UsbFns
(* variant: one mutex for the whole registry *)
LockIndex_Shared(id) == 0

LockIndex(id) == id

(* ------------------------------------------------------------------ *)
(* Inputs callers pass                                                  *)
(* ------------------------------------------------------------------ *)
DeviceIds == -1..NDev

ModeA == [ZeroMode EXCEPT !["PMode"] = TRUE, !["SyncCount"] = 1]
ModeB == [DefaultMode EXCEPT !["Tr1T"] = TRUE, !["ResEnc"] = TRUE]
ModeInputs == {ModeA, ModeB}

ParamsA == [DefaultParams EXCEPT !["BTimeoutD"] = 500000]
ParamsB == [ParamsA EXCEPT !["AccelT"] = 49000, !["MaxTemp"] = 25000]
ParamsBad == [ParamsA EXCEPT !["AccelT"] = 48999]
ParamInputs == {ParamsA, ParamsB, ParamsBad}

StartA == [DefaultStart EXCEPT !["SDivisor"] = 2, !["DefDir"] = TRUE]
StartInputs == {StartA}

SpeedInputs == {16000, 15999}

(* the wider inputs of the calls that come one after the other *)
SingleFlagModes == {[ZeroMode EXCEPT ![f] = TRUE] : f \in ModeFields \ {"SyncCount"}}
(* synchronisation counts within 16 bits: 0, the default 4, and values with either
   byte or both bytes set *)
SyncCounts == {0, 1, 4, 255, 256, 65535}
ModeInputsWide ==
    SingleFlagModes \cup {[ZeroMode EXCEPT !["SyncCount"] = n] : n \in SyncCounts}

ParamInputsWide ==
    {ParamsA, ParamsB}
    \cup {[ParamsA EXCEPT ![f] = v] : f \in {"AccelT", "DecelT"},
                                     v \in {49000, 1518000, 48999, 1518001}}
    \cup {[ParamsA EXCEPT !["AccelT"] = NaN],
          [ParamsA EXCEPT !["EncMult"] = 64000],
          [ParamsA EXCEPT !["StartPos"] = 536870912],
          [ParamsA EXCEPT !["MaxTemp"] = 0]}

StartInputsWide ==
    {StartA} \cup {[DefaultStart EXCEPT !["SDivisor"] = d] : d \in {1, 2, 4, 8, 3}}

SpeedInputsWide == {15999, 16000, 200000, 5000000, 5000001, NaN}
Destinations == {5}

(* what a call that flows off the end of a non-void function may hand back *)
UndefinedReturns == {ERR_INVALID_ID, ERR_SUCCESS, 1}

(* candidates on the bus: their serial string and firmware version descriptor *)
SerialOf(c) == 1000 + c
VersionOf(c) == IF c = 1 THEN FW_STARTPOS ELSE IF c = 2 THEN FW_TEMP ELSE FW_TEMP - 256

(* ------------------------------------------------------------------ *)
(* Range checks of USMC_impl::setParameters and setSpeed                *)
(* ------------------------------------------------------------------ *)
InRange(v, lo, hi) == ~(Less(v, lo) \/ Greater(v, hi))

ParamsInRange(parameters) ==
    /\ InRange(parameters["AccelT"], 49000, 1518000)
    /\ InRange(parameters["DecelT"], 49000, 1518000)
    /\ \A f \in {"PTimeout", "BTimeout1", "BTimeout2", "BTimeout3", "BTimeout4",
                 "BTimeoutR", "BTimeoutD"} : InRange(parameters[f], 1000, 9961000)
    /\ InRange(parameters["MaxLoft"], 1, 1023)
    /\ InRange(parameters["RTDelta"], 4, 1023)
    /\ InRange(parameters["RTMinError"], 4, 1023)
    /\ InRange(parameters["MaxTemp"], 0, 100000)
    /\ \A f \in {"MinP", "BTO1P", "BTO2P", "BTO3P", "BTO4P"} :
           InRange(parameters[f], 2000, 625000)
    /\ ~(parameters["LoftPeriod"] # 0
           /\ (Less(parameters["LoftPeriod"], 16000)
               \/ Greater(parameters["LoftPeriod"], 5000000)))

SpeedInRange(speed) == ~(Less(speed, 16000) \/ Greater(speed, 5000000))

(* ------------------------------------------------------------------ *)
(* A call: entry, early return, descent into a usmc_* function          *)
(* ------------------------------------------------------------------ *)
InCall(t) == th[t].pc \notin {"idle", "done"}
ProbeRunning == \E u \in Threads : th[u].op = "probeDevices" /\ InCall(u)

CanCall(t) == ~InCall(t) /\ ncalls < MaxCalls /\ ~ProbeRunning

StartCall(o, d, a) == [IdleThread EXCEPT !.op = o, !.device = d, !.arg = a]
Returned(c, code) == [c EXCEPT !.pc = "done", !.ret = code]
EnterUsb(c, f, id, packet) ==
    [c EXCEPT !.pc = IF HasAccessLock(f) THEN "lock" ELSE "xfer",
              !.fn = f, !.device = id, !.pkt = packet, !.res = 0, !.r = 0]
(* back in the loop of probeDevices: the locals of the last usmc_* call are gone *)
ProbeLoop(c) ==
    [c EXCEPT !.pc = "probe_loop", !.fn = "none", !.device = 0, !.pkt = 0,
              !.res = 0, !.r = 0, !.issued = 0, !.acquired = {}]

Become(t, c) ==
    /\ th' = [th EXCEPT ![t] = c]
    /\ ncalls' = ncalls + 1

(* memcpy of part of a structure *)
MemcpyFields(dst, src, fields) ==
    [f \in DOMAIN dst |-> IF f \in fields THEN src[f] ELSE dst[f]]

(* ------------------------------------------------------------------ *)
(* The body shared by every usmc_* function:                            *)
(*   USMC_lock access_lock(_locks[id]);                                 *)
(*   int res = libusb_control_transfer(_dev[id], ...);                  *)
(*   if(res < 0) return res;  ...  return 0;                            *)
(* ------------------------------------------------------------------ *)
WriteFns == {"usmc_goto", "usmc_set_mode", "usmc_set_parameters"}
PassThroughOps == {"getState", "getEncoderState", "moveTo", "stop"}

(* USMC_mutex::acquire: blocks until the mutex is free, then owns it *)
USMC_mutex_acquire(id, t) ==
    /\ At(_locks, id) = NoThread
    /\ _locks' = Put(_locks, id, t)

(* USMC_mutex::release *)
USMC_mutex_release(id) == _locks' = Put(_locks, id, NoThread)

(* variants: the lock released on one return path only *)
ScopeExitReleases_OnSuccess(res) == res >= 0

ScopeExitReleases_OnError(res) == res < 0

(* the access_lock object leaves scope on both return paths of the function *)
ScopeExitReleases(res) == res < 0 \/ res >= 0

(* "USMC_lock access_lock(_locks[id]);" *)
USMC_lock_ctor(t) ==
    /\ th[t].pc = "lock"
    /\ USMC_mutex_acquire(LockIndex(th[t].device), t)
    /\ th' = [th EXCEPT ![t].pc = "xfer",
                        ![t].acquired = @ \cup {LockIndex(th[t].device)}]
    /\ UNCHANGED <<_dev, _serial, _version, _speed, _params, _mode, _start_params,
                   bus, cast, _instance, impls, handles, inflight, hw, probe, ncalls>>

(* libusb_control_transfer(_dev[id], ...) is entered *)
control_transfer_submit(t) ==
    /\ th[t].pc = "xfer"
    /\ inflight' = [inflight EXCEPT ![At(_dev, th[t].device)] = @ \cup {t}]
    /\ th' = [th EXCEPT ![t].pc = "wait", ![t].issued = @ + 1]
    /\ UNCHANGED <<regVars, bus, cast, _instance, impls, handles, hw, probe, ncalls>>

(* ---- what the controller answers to the two state queries ---- *)
(* STATE_PACKET (11 bytes); the last byte is the high byte of Voltage *)
StateReplies ==
    { [CurPos |-> DWord(40), Temp |-> 32768, M1 |-> 1, M2 |-> 0, LOFT |-> 0, REFIN |-> 1,
       CW_CCW |-> 0, RESET |-> 1, FULLSPEED |-> 0, AFTRESET |-> 0, RUN |-> 1,
       SYNCIN |-> 0, SYNCOUT |-> 0, ROTTR |-> 0, ROTTRERR |-> 0, EMRESET |-> 0,
       TRAILER1 |-> 1, TRAILER2 |-> 0, VoltageLo |-> 139, VoltageHi |-> 46],
      [CurPos |-> [hi |-> 65535, lo |-> 65495], Temp |-> 14839, M1 |-> 1, M2 |-> 1,
       LOFT |-> 1, REFIN |-> 0, CW_CCW |-> 1, RESET |-> 1, FULLSPEED |-> 1,
       AFTRESET |-> 1, RUN |-> 0, SYNCIN |-> 1, SYNCOUT |-> 0, ROTTR |-> 0,
       ROTTRERR |-> 0, EMRESET |-> 0, TRAILER1 |-> 0, TRAILER2 |-> 1,
       VoltageLo |-> 139, VoltageHi |-> 46] }

(* ENCODER_STATE_PACKET (8 bytes): the last byte is the top byte of EncPos *)
EncoderReplies ==
    { [ECurPos |-> 40, EncLow |-> 7, EncTop |-> 0],
      [ECurPos |-> 41, EncLow |-> 9, EncTop |-> 0] }

QueryFns == {"usmc_get_state", "usmc_get_encoder_state"}

Replies(f) ==
    CASE f = "usmc_get_state" -> StateReplies
      [] f = "usmc_get_encoder_state" -> EncoderReplies
      [] OTHER -> {NoReply}

(* a byte of the local packet buffer that the transfer did not write: the buffer is
   declared without initialiser, it holds whatever the stack held *)
StackBytes == {0, 255}

(* the local buffer after a transfer of res bytes: a full reply, or the reply with
   its last byte left as it was *)
Received(f, reply, res, stack) ==
    IF res = wLength(f) THEN reply
    ELSE IF f = "usmc_get_state" THEN [reply EXCEPT !.VoltageHi = stack]
    ELSE IF f = "usmc_get_encoder_state" THEN [reply EXCEPT !.EncTop = stack]
    ELSE reply

(* (signed int) of a 32-bit value, and the division of C (towards zero) *)
SignedInt(dw) ==
    IF dw.hi >= 32768 THEN (dw.hi - U16) * U16 + dw.lo ELSE dw.hi * U16 + dw.lo
TruncDiv(a, b) == IF a >= 0 THEN a \div b ELSE -((-a) \div b)

(* the temperature of usmc_get_state in thousandths of a degree; firmware before
   0x2400 goes through the thermistor formula, tabulated here *)
OldTempOf(raw) ==
    CASE raw = 49648 -> 25000
      [] raw = 14839 -> 69999
      [] raw = 32768 -> 41820
StateTempOf_NoOffset(version, raw) ==
    IF version < FW_TEMP THEN OldTempOf(raw)
    ELSE (raw * 20625) \div 4096
StateTempOf(version, raw) ==
    IF version < FW_TEMP THEN OldTempOf(raw)
    ELSE ((raw * 20625) \div 4096) - 50000

(* Voltage in thousandths of a volt: raw / 65536 * 3.3 * 20, below 5 V reported as 0 *)
(* variant: the voltage without its floor *)
StateVoltageOf_NoFloor(raw) == (raw * 4125) \div 4096

StateVoltageOf(raw) ==
    LET v == (raw * 4125) \div 4096 IN IF v < 5000 THEN 0 ELSE v

(* the else-branch of usmc_get_state: USMC_State from the buffer *)
usmc_get_state_decode(version, d) ==
    [AReset |-> d.AFTRESET = 1, CurPos |-> TruncDiv(SignedInt(d.CurPos), 8),
     CW_CCW |-> d.CW_CCW = 1, EmReset |-> d.EMRESET = 1, FullPower |-> d.REFIN = 1,
     FullSpeed |-> d.FULLSPEED = 1, Loft |-> d.LOFT = 1, Power |-> d.RESET = 1,
     RotTr |-> d.ROTTR = 1, RotTrErr |-> d.ROTTRERR = 1, RUN |-> d.RUN = 1,
     SyncIN |-> d.SYNCIN = 1, SyncOUT |-> d.SYNCOUT = 1,
     Trailer1 |-> d.TRAILER1 = 1, Trailer2 |-> d.TRAILER2 = 1,
     SDivisor |-> (2 ^ (d.M2 * 2 + d.M1)) % U8,
     Temp |-> StateTempOf(version, d.Temp),
     Voltage |-> StateVoltageOf(d.VoltageLo + 256 * d.VoltageHi)]

(* the else-branch of usmc_get_encoder_state; a top byte of 0xFF makes EncPos
   negative as an int *)
usmc_get_encoder_state_decode(d) ==
    [ECurPos |-> d.ECurPos,
     EncoderPos |-> IF d.EncTop >= 128 THEN d.EncLow + (d.EncTop - 256) * 16777216
                    ELSE d.EncLow + d.EncTop * 16777216]

(* what the usmc_* function hands back through its output reference *)
usmc_output(f, version, buffer) ==
    CASE f = "usmc_get_state" -> usmc_get_state_decode(version, buffer)
      [] f = "usmc_get_encoder_state" -> usmc_get_encoder_state_decode(buffer)
      [] OTHER -> NoReply

(* variant: the byte count handed on as the result *)
usmc_result_Bytes(res) == res

(* "if(res < 0) return res; ... return 0;" *)
usmc_result(res) == IF res < 0 THEN res ELSE 0

(* libusb_control_transfer returns: bytes transferred or a negative error; an
   acknowledged write leaves its packet in the controller, in the place of the last
   packet of the same request; a query fills the local buffer, from which the output
   is computed *)
control_transfer_completeOf(t, replies) ==
    /\ th[t].pc = "wait"
    /\ \E res \in TransferResults(th[t].fn), reply \in replies,
          stack \in StackBytes :
         /\ res = wLength(th[t].fn) \/ th[t].fn \notin QueryFns => stack = 0
         /\ res < 0 => reply = CHOOSE x \in replies : TRUE
         /\ th' = [th EXCEPT ![t].pc = IF HasAccessLock(th[t].fn) THEN "unlock" ELSE "after",
                             ![t].res = res,
                             ![t].r = usmc_result(res),
                             ![t].reply = IF th[t].fn \in QueryFns /\ res >= 0
                                          THEN reply ELSE @,
                             ![t].state = IF th[t].fn \in QueryFns /\ res >= 0
                                          THEN usmc_output(th[t].fn,
                                                           At(_version, th[t].device),
                                                           Received(th[t].fn, reply, res, stack))
                                          ELSE @]
         /\ hw' = IF res >= 0 /\ th[t].fn \in WriteFns
                  THEN [hw EXCEPT ![At(_dev, th[t].device)] =
                           Append(SelectSeq(@, LAMBDA e : e.fn # th[t].fn),
                                  [fn |-> th[t].fn, pkt |-> th[t].pkt])]
                  ELSE hw
         /\ probe' = IF res < 0 /\ th[t].op = "probeDevices"
                     THEN [probe EXCEPT !.failed =
                                     @ \cup {<<At(_dev, th[t].device), th[t].fn>>}]
                     ELSE probe
    /\ inflight' = [inflight EXCEPT ![At(_dev, th[t].device)] = @ \ {t}]
    /\ UNCHANGED <<regVars, bus, cast, _instance, impls, handles, ncalls>>

control_transfer_complete(t) == control_transfer_completeOf(t, Replies(th[t].fn))

(* "return res;" / "return 0;": access_lock is destroyed; the public functions that
   end in "return usmc_...(...)" return with it *)
usmc_return(t) ==
    /\ th[t].pc = "unlock"
    /\ IF ScopeExitReleases(th[t].res)
       THEN USMC_mutex_release(LockIndex(th[t].device))
       ELSE UNCHANGED _locks
    /\ th' = [th EXCEPT ![t].pc = IF th[t].op \in PassThroughOps THEN "done" ELSE "after",
                        ![t].ret = IF th[t].op \in PassThroughOps THEN th[t].r ELSE @]
    /\ UNCHANGED <<_dev, _serial, _version, _speed, _params, _mode, _start_params,
                   bus, cast, _instance, impls, handles, inflight, hw, probe, ncalls>>

(* ------------------------------------------------------------------ *)
(* Public per-device operations (USMC_impl)                             *)
(* ------------------------------------------------------------------ *)
CheckId(device) == IF ~checkDevice(device) THEN ERR_INVALID_ID ELSE ERR_SUCCESS

CheckIdPtr(device, ptr) ==
    IF ~checkDevice(device) THEN ERR_INVALID_ID
    ELSE IF ptr.null THEN ERR_INVALID_PARAM
    ELSE ERR_SUCCESS

setParameters_check(device, parameters) ==
    IF ~checkDevice(device) THEN ERR_INVALID_ID
    ELSE IF parameters.null THEN ERR_INVALID_PARAM
    ELSE IF ~ParamsInRange(parameters.val) THEN ERR_INVALID_VALUE
    ELSE ERR_SUCCESS

setSpeed_check(device, speed) ==
    IF ~checkDevice(device) THEN ERR_INVALID_ID
    ELSE IF ~SpeedInRange(speed) THEN ERR_INVALID_VALUE
    ELSE ERR_SUCCESS

LeaveRegistry == UNCHANGED <<regVars, bus, _instance, impls, handles, inflight, hw, probe>>
Leave == LeaveRegistry /\ UNCHANGED cast

getSerialNumber(t) ==
    \E device \in DeviceIds :
      /\ CanCall(t)
      /\ LET c == StartCall("getSerialNumber", device, NoArg)
         IN  Become(t, IF CheckId(device) # ERR_SUCCESS
                       THEN Returned(c, CheckId(device))
                       ELSE Returned([c EXCEPT !.out = At(_serial, device)], ERR_SUCCESS))
      /\ Leave

getVersion(t) ==
    \E device \in DeviceIds :
      /\ CanCall(t)
      /\ LET c == StartCall("getVersion", device, NoArg)
         IN  Become(t, IF CheckId(device) # ERR_SUCCESS
                       THEN Returned(c, CheckId(device))
                       ELSE Returned([c EXCEPT !.out = At(_version, device)], ERR_SUCCESS))
      /\ Leave

getState(t) ==
    \E device \in DeviceIds, state \in {NullPtr, Ptr(0)} :
      /\ CanCall(t)
      /\ LET c == StartCall("getState", device, state)
         IN  Become(t, IF CheckIdPtr(device, state) # ERR_SUCCESS
                       THEN Returned(c, CheckIdPtr(device, state))
                       ELSE EnterUsb(c, "usmc_get_state", device, 0))
      /\ Leave

getEncoderState(t) ==
    \E device \in DeviceIds, state \in {NullPtr, Ptr(0)} :
      /\ CanCall(t)
      /\ LET c == StartCall("getEncoderState", device, state)
         IN  Become(t, IF CheckIdPtr(device, state) # ERR_SUCCESS
                       THEN Returned(c, CheckIdPtr(device, state))
                       ELSE EnterUsb(c, "usmc_get_encoder_state", device, 0))
      /\ Leave

getMode(t) ==
    \E device \in DeviceIds, mode \in {NullPtr, Ptr(0)} :
      /\ CanCall(t)
      /\ LET c == StartCall("getMode", device, mode)
         IN  Become(t, IF CheckIdPtr(device, mode) # ERR_SUCCESS
                       THEN Returned(c, CheckIdPtr(device, mode))
                       ELSE Returned([c EXCEPT !.out = At(_mode, device)], ERR_SUCCESS))
      /\ Leave

setModeOf(t, modes) ==
    \E device \in DeviceIds, mode \in {NullOf(ZeroMode)} \cup {Ptr(m) : m \in modes},
       ub \in Indeterminate :
      /\ CanCall(t)
      /\ LET c == StartCall("setMode", device, mode)
         IN  Become(t, IF CheckIdPtr(device, mode) # ERR_SUCCESS
                       THEN Returned(c, CheckIdPtr(device, mode))
                       ELSE EnterUsb(c, "usmc_set_mode", device,
                                     usmc_set_mode_packet(mode.val, ub)))
      /\ Leave

setMode(t) == setModeOf(t, ModeInputs)

(* which results of the USB call let the public setter go on to store its input *)
(* variant: the cache written whatever usmc_set_* returned *)
StoresAfter_Always(r) == TRUE

StoresAfter(r) == ~(r < 0)

(* "if(r < 0) return r;" then the memcpy into _mode[device] begins *)
setMode_store(t) ==
    /\ th[t].pc = "after" /\ th[t].op = "setMode"
    /\ IF StoresAfter(th[t].r)
       THEN /\ _mode' = Put(_mode, th[t].device,
                            MemcpyFields(At(_mode, th[t].device), th[t].arg.val, ModeLoFields))
            /\ th' = [th EXCEPT ![t].pc = "memcpy", ![t].stored = TRUE]
       ELSE /\ th' = [th EXCEPT ![t] = Returned(@, th[t].r)]
            /\ UNCHANGED _mode
    /\ UNCHANGED <<_dev, _locks, _serial, _version, _speed, _params, _start_params,
                   bus, cast, _instance, impls, handles, inflight, hw, probe, ncalls>>

(* the memcpy completes; "return ERR_SUCCESS;" *)
setMode_memcpy(t) ==
    /\ th[t].pc = "memcpy" /\ th[t].op = "setMode"
    /\ _mode' = Put(_mode, th[t].device,
                    MemcpyFields(At(_mode, th[t].device), th[t].arg.val, ModeHiFields))
    /\ th' = [th EXCEPT ![t] = Returned(@, ERR_SUCCESS)]
    /\ UNCHANGED <<_dev, _locks, _serial, _version, _speed, _params, _start_params,
                   bus, cast, _instance, impls, handles, inflight, hw, probe, ncalls>>

getParameters(t) ==
    \E device \in DeviceIds, parameters \in {NullPtr, Ptr(0)} :
      /\ CanCall(t)
      /\ LET c == StartCall("getParameters", device, parameters)
         IN  Become(t, IF CheckIdPtr(device, parameters) # ERR_SUCCESS
                       THEN Returned(c, CheckIdPtr(device, parameters))
                       ELSE Returned([c EXCEPT !.out = At(_params, device)], ERR_SUCCESS))
      /\ Leave

setParametersOf(t, inputs) ==
    \E device \in DeviceIds, parameters \in {NullOf(ZeroParams)} \cup {Ptr(p) : p \in inputs},
       cv \in CastOutcomes :
      /\ CanCall(t)
      /\ LET c == StartCall("setParameters", device, parameters)
             accepted == setParameters_check(device, parameters) = ERR_SUCCESS
         IN  /\ Become(t, IF ~accepted
                          THEN Returned(c, setParameters_check(device, parameters))
                          ELSE EnterUsb(c, "usmc_set_parameters", device,
                                        usmc_set_parameters_packet(At(_version, device),
                                                                   parameters.val, cv)))
             /\ Casting(cv, accepted /\ usmc_set_parameters_undefined(At(_version, device),
                                                                      parameters.val))
      /\ LeaveRegistry

setParameters(t) == setParametersOf(t, ParamInputs)

(* the caller passes to setParameters the record its getParameters has just returned *)
setParametersBack(t) ==
    /\ th[t].pc = "done" /\ th[t].op = "getParameters" /\ th[t].ret = ERR_SUCCESS
    /\ setParametersOf(t, {th[t].out})

setParameters_store(t) ==
    /\ th[t].pc = "after" /\ th[t].op = "setParameters"
    /\ IF StoresAfter(th[t].r)
       THEN /\ _params' = Put(_params, th[t].device,
                              MemcpyFields(At(_params, th[t].device), th[t].arg.val,
                                           ParamLoFields))
            /\ th' = [th EXCEPT ![t].pc = "memcpy", ![t].stored = TRUE]
       ELSE /\ th' = [th EXCEPT ![t] = Returned(@, th[t].r)]
            /\ UNCHANGED _params
    /\ UNCHANGED <<_dev, _locks, _serial, _version, _speed, _mode, _start_params,
                   bus, cast, _instance, impls, handles, inflight, hw, probe, ncalls>>

setParameters_memcpy(t) ==
    /\ th[t].pc = "memcpy" /\ th[t].op = "setParameters"
    /\ _params' = Put(_params, th[t].device,
                      MemcpyFields(At(_params, th[t].device), th[t].arg.val, ParamHiFields))
    /\ th' = [th EXCEPT ![t] = Returned(@, ERR_SUCCESS)]
    /\ UNCHANGED <<_dev, _locks, _serial, _version, _speed, _mode, _start_params,
                   bus, cast, _instance, impls, handles, inflight, hw, probe, ncalls>>

getStartParameters(t) ==
    \E device \in DeviceIds, start_params \in {NullPtr, Ptr(0)} :
      /\ CanCall(t)
      /\ LET c == StartCall("getStartParameters", device, start_params)
         IN  Become(t, IF CheckIdPtr(device, start_params) # ERR_SUCCESS
                       THEN Returned(c, CheckIdPtr(device, start_params))
                       ELSE Returned([c EXCEPT !.out = At(_start_params, device)],
                                     ERR_SUCCESS))
      /\ Leave

setStartParametersOf(t, inputs) ==
    \E device \in DeviceIds, start_params \in {NullOf(ZeroStart)} \cup {Ptr(p) : p \in inputs} :
      /\ CanCall(t)
      /\ LET c == StartCall("setStartParameters", device, start_params)
             e == CheckIdPtr(device, start_params)
         IN  /\ Become(t, IF e # ERR_SUCCESS THEN Returned(c, e)
                          ELSE Returned([c EXCEPT !.stored = TRUE], ERR_SUCCESS))
             /\ _start_params' = IF e # ERR_SUCCESS THEN _start_params
                                 ELSE Put(_start_params, device, start_params.val)
      /\ UNCHANGED <<_dev, _locks, _serial, _version, _speed, _params, _mode,
                     bus, cast, _instance, impls, handles, inflight, hw, probe>>

setStartParameters(t) == setStartParametersOf(t, StartInputs)

getSpeed(t) ==
    \E device \in DeviceIds :
      /\ CanCall(t)
      /\ LET c == StartCall("getSpeed", device, NoArg)
         IN  Become(t, IF CheckId(device) # ERR_SUCCESS
                       THEN Returned(c, CheckId(device))
                       ELSE Returned([c EXCEPT !.out = At(_speed, device)], ERR_SUCCESS))
      /\ Leave

(* variant: the speed stored before its range check *)
setSpeed_stores_Unchecked(e) == e # ERR_INVALID_ID

(* the validation results with which setSpeed reaches "_speed[device] = speed;" *)
setSpeed_stores(e) == e = ERR_SUCCESS

setSpeedOf(t, speeds) ==
    \E device \in DeviceIds, speed \in speeds :
      /\ CanCall(t)
      /\ LET c == StartCall("setSpeed", device, Ptr(speed))
             e == setSpeed_check(device, speed)
         IN  /\ Become(t, Returned([c EXCEPT !.stored = setSpeed_stores(e)], e))
             /\ _speed' = IF setSpeed_stores(e) THEN Put(_speed, device, speed)
                          ELSE _speed
      /\ UNCHANGED <<_dev, _locks, _serial, _version, _params, _mode, _start_params,
                     bus, cast, _instance, impls, handles, inflight, hw, probe>>

setSpeed(t) == setSpeedOf(t, SpeedInputs)

(* variant: the move computed from the caches of device 0 *)
moveTo_FirstDevice(t) ==
    \E device \in DeviceIds, destination \in Destinations, ub \in Indeterminate,
       cv \in CastOutcomes :
      /\ CanCall(t)
      /\ LET c == StartCall("moveTo", device, Ptr(destination))
             valid == CheckId(device) = ERR_SUCCESS
         IN  /\ Become(t, IF ~valid
                          THEN Returned(c, CheckId(device))
                          ELSE EnterUsb(c, "usmc_goto", device,
                                        usmc_goto_packet(destination, At(_speed, 0),
                                                         At(_start_params, 0), ub, cv)))
             /\ Casting(cv, valid /\ ~FitsU16(usmc_goto_period(At(_speed, 0))))
      /\ LeaveRegistry

moveToOf(t, destinations) ==
    \E device \in DeviceIds, destination \in destinations, ub \in Indeterminate,
       cv \in CastOutcomes :
      /\ CanCall(t)
      /\ LET c == StartCall("moveTo", device, Ptr(destination))
             valid == CheckId(device) = ERR_SUCCESS
         IN  /\ Become(t, IF ~valid
                          THEN Returned(c, CheckId(device))
                          ELSE EnterUsb(c, "usmc_goto", device,
                                        usmc_goto_packet(destination, At(_speed, device),
                                                         At(_start_params, device),
                                                         ub, cv)))
             /\ Casting(cv, valid /\ ~FitsU16(usmc_goto_period(At(_speed, device))))
      /\ LeaveRegistry

moveTo(t) == moveToOf(t, Destinations)

stop(t) ==
    \E device \in DeviceIds :
      /\ CanCall(t)
      /\ LET c == StartCall("stop", device, NoArg)
         IN  Become(t, IF CheckId(device) # ERR_SUCCESS
                       THEN Returned(c, CheckId(device))
                       ELSE EnterUsb(c, "usmc_stop", device, 0))
      /\ Leave

(* the function ends after the id check without a return statement *)
setCurrentPosition(t) ==
    \E device \in DeviceIds, position \in Destinations, undefined \in UndefinedReturns :
      /\ CanCall(t)
      /\ LET c == StartCall("setCurrentPosition", device, Ptr(position))
         IN  Become(t, IF CheckId(device) # ERR_SUCCESS
                       THEN Returned(c, CheckId(device))
                       ELSE Returned(c, undefined))
      /\ Leave

(* ------------------------------------------------------------------ *)
(* USMC_impl::probeDevices                                              *)
(* ------------------------------------------------------------------ *)
(* the bus as libusb_get_device_list may find it: NCand devices, all of them USMC
   controllers (vendor 0x10c4, product 0x0230) or with another device among them *)
BusChoices ==
    {[i \in 1..NCand |-> [c |-> i, usmc |-> i # other]] : other \in {0, 2}}

(* "int count = 0; libusb_get_device_list(NULL, &devs); if (cnt < 0) return cnt;" *)
probeDevices(t) ==
    /\ CanCall(t)
    /\ \A u \in Threads : ~InCall(u)
    /\ \E cnt \in UsbErrors \cup {Len(bus)} :
         LET c == StartCall("probeDevices", 0, NoArg)
         IN  /\ Become(t, IF cnt < 0 THEN Returned(c, cnt)
                          ELSE ProbeLoop(c))
             /\ probe' = NoProbe
    /\ UNCHANGED <<regVars, bus, cast, _instance, impls, handles, inflight, hw>>

(* libusb_open / libusb_close on the handles of candidate c; closing a handle that is
   not open is recorded *)
NoHandles == [open |-> [c \in Cands |-> 0], closed |-> [c \in Cands |-> 0], stale |-> FALSE]
libusb_open(h, c) == [h EXCEPT !.open[c] = @ + 1]
(* variant: the handle left open *)
libusb_close_Leak(h, c) == h

libusb_close(h, c) ==
    IF h.open[c] = 0 THEN [h EXCEPT !.stale = TRUE]
    ELSE [h EXCEPT !.open[c] = @ - 1, !.closed[c] = @ + 1]

(* the registry rows of the new device: "int id = _dev.size(); _dev.push_back(dev_h);"
   and the push_back of a lock, the three structures and the speed *)
PushDevice(c) ==
    /\ _dev' = Append(_dev, c)
    /\ _locks' = Append(_locks, NoThread)
    /\ _params' = Append(_params, ZeroParams)
    /\ _mode' = Append(_mode, ZeroMode)
    /\ _start_params' = Append(_start_params, ZeroStart)
    /\ _speed' = Append(_speed, DefaultSpeed)

(* variant: the serial/version entries popped whether or not they were pushed *)
RollbackOptional_Always(vec, id) == PopBack(vec)

(* variant: no rollback of the serial/version entries *)
RollbackOptional_Never(vec, id) == vec

(* "if(_serial.size() > id) _serial.pop_back();" and the same for _version *)
RollbackOptional(vec, id) == IF Len(vec) > id THEN PopBack(vec) ELSE vec

(* the catch block: close the handle, drop the rows pushed for this candidate *)
Rollback(t) ==
    /\ _dev' = PopBack(_dev)
    /\ _locks' = PopBack(_locks)
    /\ _params' = PopBack(_params)
    /\ _mode' = PopBack(_mode)
    /\ _start_params' = PopBack(_start_params)
    /\ _speed' = PopBack(_speed)
    /\ _serial' = RollbackOptional(_serial, probe.id)
    /\ _version' = RollbackOptional(_version, probe.id)
    /\ handles' = libusb_close(handles, At(_dev, probe.id))
    /\ th' = [th EXCEPT ![t] = ProbeLoop(@)]
    /\ UNCHANGED probe

(* where the while loop goes after a candidate that could not be set up *)
AfterFailedCandidate(i) == i + 1

(* one turn of "while ((dev = devs[i++]) != NULL)" up to the first USB call on the
   candidate; past the last device: free the list, "return count;" *)
probe_next(t) ==
    /\ th[t].pc = "probe_loop" /\ th[t].op = "probeDevices"
    /\ IF probe.i >= Len(bus)
       THEN /\ th' = [th EXCEPT ![t] = Returned(@, probe.count)]
            /\ UNCHANGED <<regVars, probe, handles>>
       ELSE LET dev == bus[probe.i + 1]
            IN  \/ \* libusb_get_device_descriptor fails, or another vendor/product
                   /\ UNCHANGED <<regVars, th, handles>>
                   /\ probe' = [probe EXCEPT !.i = @ + 1]
                \/ \* libusb_open fails
                   /\ dev.usmc
                   /\ UNCHANGED <<regVars, th, handles>>
                   /\ probe' = [probe EXCEPT !.i = AfterFailedCandidate(@),
                                             !.matched = @ \cup {dev.c},
                                             !.failed = @ \cup {<<dev.c, "libusb_open">>}]
                \/ \* opened: register the rows, then usmc_get_serial(id, buffer, 32)
                   /\ dev.usmc
                   /\ handles' = libusb_open(handles, dev.c)
                   /\ PushDevice(dev.c)
                   /\ UNCHANGED <<_serial, _version>>
                   /\ probe' = [probe EXCEPT !.i = @ + 1, !.id = Len(_dev),
                                             !.matched = @ \cup {dev.c}]
                   /\ th' = [th EXCEPT ![t] = EnterUsb(@, "usmc_get_serial", Len(_dev), 0)]
    /\ UNCHANGED <<bus, cast, inflight, hw, ncalls, _instance, impls>>

ProbeAfter(t, f) ==
    th[t].pc = "after" /\ th[t].op = "probeDevices" /\ th[t].fn = f

(* "if(r < 0) throw; _serial.push_back(serial); r = usmc_get_version(id, version);" *)
probe_serial(t) ==
    /\ ProbeAfter(t, "usmc_get_serial")
    /\ IF th[t].r < 0
       THEN Rollback(t)
       ELSE /\ _serial' = Append(_serial, SerialOf(At(_dev, probe.id)))
            /\ th' = [th EXCEPT ![t] = EnterUsb(@, "usmc_get_version", probe.id, 0)]
            /\ UNCHANGED <<_dev, _locks, _version, _speed, _params, _mode, _start_params,
                           probe, handles>>
    /\ UNCHANGED <<bus, cast, inflight, hw, ncalls, _instance, impls>>

(* "if(r < 0) throw; _version.push_back(version); initDefaults(id);
    r = usmc_set_mode(id, *(_mode[id]));" *)
probe_version(t) ==
    /\ ProbeAfter(t, "usmc_get_version")
    /\ IF th[t].r < 0
       THEN Rollback(t)
       ELSE /\ _version' = Append(_version, VersionOf(At(_dev, probe.id)))
            /\ _mode' = Put(_mode, probe.id, DefaultMode)
            /\ _params' = Put(_params, probe.id, DefaultParams)
            /\ _start_params' = Put(_start_params, probe.id, DefaultStart)
            /\ \E ub \in Indeterminate :
                 th' = [th EXCEPT ![t] = EnterUsb(@, "usmc_set_mode", probe.id,
                                                 usmc_set_mode_packet(DefaultMode, ub))]
            /\ UNCHANGED <<_dev, _locks, _serial, _speed, probe, handles>>
    /\ UNCHANGED <<bus, cast, inflight, hw, ncalls, _instance, impls>>

(* "if(r < 0) throw; r = usmc_set_parameters(id, *(_params[id]));" *)
probe_mode(t) ==
    /\ ProbeAfter(t, "usmc_set_mode")
    /\ IF th[t].r < 0
       THEN Rollback(t)
       ELSE /\ \E cv \in CastOutcomes :
                 /\ th' = [th EXCEPT ![t] =
                            EnterUsb(@, "usmc_set_parameters", probe.id,
                                     usmc_set_parameters_packet(At(_version, probe.id),
                                                                At(_params, probe.id),
                                                                cv))]
                 /\ cast \in {Undecided, cv}
            /\ UNCHANGED <<regVars, probe, handles>>
    /\ UNCHANGED <<bus, cast, inflight, hw, ncalls, _instance, impls>>

(* variant: the candidate counted whatever the parameters write returned *)
probe_params_CountAlways(t) ==
    /\ ProbeAfter(t, "usmc_set_parameters")
    /\ th' = [th EXCEPT ![t] = ProbeLoop(@)]
    /\ probe' = [probe EXCEPT !.count = @ + 1]
    /\ UNCHANGED <<regVars, handles>>
    /\ UNCHANGED <<bus, cast, inflight, hw, ncalls, _instance, impls>>

(* "if(r < 0) throw; count++;" *)
probe_params(t) ==
    /\ ProbeAfter(t, "usmc_set_parameters")
    /\ IF th[t].r < 0
       THEN Rollback(t)
       ELSE /\ th' = [th EXCEPT ![t] = ProbeLoop(@)]
            /\ probe' = [probe EXCEPT !.count = @ + 1]
            /\ UNCHANGED <<regVars, handles>>
    /\ UNCHANGED <<bus, cast, inflight, hw, ncalls, _instance, impls>>

(* ------------------------------------------------------------------ *)
(* Life cycle of the registry (USMC::getInstance / shutdown) and the    *)
(* registry-wide queries                                                *)
(* ------------------------------------------------------------------ *)
NoImpls == [made |-> 0, live |-> {}]
OneImpl == [made |-> 1, live |-> {1}]

CanCallLife(t) == ~InCall(t) /\ ncalls < MaxLifeCalls /\ ~ProbeRunning
Serial == \A u \in Threads : ~InCall(u)
LifeFrame == UNCHANGED <<regVars, bus, cast, inflight, hw, probe>>

(* "if(NULL == _instance)" *)
getInstance(t) ==
    /\ CanCallLife(t)
    /\ LET c == StartCall("getInstance", 0, NoArg)
       IN  Become(t, [c EXCEPT !.pc = IF 0 = _instance THEN "gi_new" ELSE "gi_return"])
    /\ LifeFrame
    /\ UNCHANGED <<_instance, impls, handles>>

(* "_instance = new USMC_impl();": the constructor throws when libusb_init fails *)
getInstance_new(t) ==
    /\ th[t].pc = "gi_new"
    /\ \/ \E ret \in UsbErrors :
            /\ th' = [th EXCEPT ![t].pc = "done", ![t].res = ret, ![t].ret = 0]
            /\ UNCHANGED <<_instance, impls>>
       \/ /\ impls' = [made |-> impls.made + 1, live |-> impls.live \cup {impls.made + 1}]
          /\ _instance' = impls.made + 1
          /\ th' = [th EXCEPT ![t].pc = "gi_return", ![t].stored = TRUE]
    /\ LifeFrame
    /\ UNCHANGED <<ncalls, handles>>

(* "return _instance;" *)
getInstance_return(t) ==
    /\ th[t].pc = "gi_return"
    /\ th' = [th EXCEPT ![t] = Returned(@, _instance)]
    /\ LifeFrame
    /\ UNCHANGED <<ncalls, _instance, impls, handles>>

(* variant: a destructor that closes nothing *)
CloseAll_None(h, devs) == h

(* USMC_impl::~USMC_impl: "libusb_close(_dev[i])" for every row *)
RECURSIVE CloseAll(_, _)
CloseAll(h, devs) ==
    IF devs = << >> THEN h
    ELSE CloseAll(libusb_close(h, Head(devs)), Tail(devs))

(* USMC::shutdown: "if(NULL != _instance) { delete _instance; _instance = NULL; }" *)
shutdown(t) ==
    /\ CanCallLife(t)
    /\ LET c == StartCall("shutdown", 0, NoArg)
       IN  Become(t, Returned([c EXCEPT !.stored = (0 # _instance)], 0))
    /\ IF 0 # _instance
       THEN /\ handles' = CloseAll(handles, _dev)
            /\ _dev' = << >> /\ _locks' = << >> /\ _params' = << >> /\ _mode' = << >>
            /\ _start_params' = << >> /\ _serial' = << >> /\ _version' = << >>
            /\ _speed' = << >>
            /\ impls' = [impls EXCEPT !.live = @ \ {_instance}]
            /\ _instance' = 0
       ELSE UNCHANGED <<regVars, _instance, impls, handles>>
    /\ UNCHANGED <<bus, cast, inflight, hw, probe>>

(* USMC_impl::countDevices as a call *)
countDevices_call(t) ==
    /\ CanCallLife(t)
    /\ Become(t, Returned(StartCall("countDevices", 0, NoArg), countDevices))
    /\ LifeFrame
    /\ UNCHANGED <<_instance, impls, handles>>

(* variant: the scan keeps the last match instead of returning at the first *)
RECURSIVE getDeviceID_last(_, _)
getDeviceID_last(i, serial) ==
    IF ~(i < Len(_serial)) THEN -1
    ELSE LET rest == getDeviceID_last(i + 1, serial)
         IN  IF rest >= 0 THEN rest
             ELSE IF At(_serial, i) = serial THEN i ELSE -1

(* the loop of getDeviceID from index i (0-based) on *)
RECURSIVE getDeviceID_from(_, _)
getDeviceID_from(i, serial) ==
    IF ~(i < Len(_serial)) THEN -1
    ELSE IF At(_serial, i) = serial THEN i
    ELSE getDeviceID_from(i + 1, serial)

SerialInputs == {SerialOf(1), SerialOf(2), SerialOf(NCand + 1)}

getDeviceID(t) ==
    \E serial \in SerialInputs :
      /\ CanCallLife(t)
      /\ Become(t, Returned(StartCall("getDeviceID", 0, Ptr(serial)),
                            getDeviceID_from(0, serial)))
      /\ LifeFrame
      /\ UNCHANGED <<_instance, impls, handles>>

(* ------------------------------------------------------------------ *)
(* Specifications                                                       *)
(* ------------------------------------------------------------------ *)
Repeat(n, v) == [i \in 1..n |-> v]

(* the registry as a first probeDevices leaves it when it attached the candidates
   devs, in this order, of the n controllers on the bus *)
Attached(devs, n) ==
    /\ _dev = devs
    /\ _locks = Repeat(Len(devs), NoThread)
    /\ _serial = [i \in 1..Len(devs) |-> SerialOf(devs[i])]
    /\ _version = [i \in 1..Len(devs) |-> VersionOf(devs[i])]
    /\ _speed = Repeat(Len(devs), DefaultSpeed)
    /\ _params = Repeat(Len(devs), DefaultParams)
    /\ _mode = Repeat(Len(devs), DefaultMode)
    /\ _start_params = Repeat(Len(devs), DefaultStart)
    /\ bus = [i \in 1..n |-> [c |-> i, usmc |-> TRUE]]
    /\ cast = Undecided
    /\ inflight = [c \in Cands |-> {}]
    /\ hw = [c \in Cands |->
               IF \E i \in 1..Len(devs) : devs[i] = c
               THEN << [fn |-> "usmc_set_mode",
                        pkt |-> usmc_set_mode_packet(DefaultMode, ZeroStack)],
                       [fn |-> "usmc_set_parameters",
                        pkt |-> usmc_set_parameters_packet(VersionOf(c), DefaultParams, 0)] >>
               ELSE << >>]
    /\ th = [t \in Threads |-> IdleThread]
    /\ probe = NoProbe
    /\ ncalls = 0
    /\ _instance = 1
    /\ impls = OneImpl
    /\ handles = [NoHandles EXCEPT
                    !.open = [c \in Cands |->
                                IF \E i \in 1..Len(devs) : devs[i] = c THEN 1 ELSE 0]]

(* the registry as a first probeDevices leaves it when the bus holds NDev
   controllers and every step on each succeeds *)
InitAttached == Attached([i \in 1..NDev |-> i], NDev)

UsbStep(t) ==
    \/ USMC_lock_ctor(t)
    \/ control_transfer_submit(t)
    \/ control_transfer_complete(t)
    \/ usmc_return(t)

Next ==
    \E t \in Threads :
      \/ getSerialNumber(t) \/ getVersion(t)
      \/ getState(t) \/ getEncoderState(t)
      \/ getMode(t) \/ setMode(t) \/ setMode_store(t) \/ setMode_memcpy(t)
      \/ getParameters(t) \/ setParameters(t)
      \/ setParameters_store(t) \/ setParameters_memcpy(t)
      \/ getStartParameters(t) \/ setStartParameters(t)
      \/ getSpeed(t) \/ setSpeed(t)
      \/ moveTo(t) \/ stop(t) \/ setCurrentPosition(t)
      \/ UsbStep(t)

Spec == InitAttached /\ [][Next]_vars

(* the caller of the specifications in which calls come one after the other *)
LifeCallers == {1}

(* no device attached, whatever is on the bus *)
InitEmpty ==
    /\ _dev = << >> /\ _locks = << >> /\ _serial = << >> /\ _version = << >>
    /\ _speed = << >> /\ _params = << >> /\ _mode = << >> /\ _start_params = << >>
    /\ bus \in BusChoices
    /\ cast = Undecided
    /\ inflight = [c \in Cands |-> {}]
    /\ hw = [c \in Cands |-> << >>]
    /\ th = [t \in Threads |-> IdleThread]
    /\ probe = NoProbe
    /\ ncalls = 0
    /\ handles = NoHandles

(* the registry after construction: no device yet *)
InitProbe == InitEmpty /\ _instance = 1 /\ impls = OneImpl

(* probeDevices runs only while no other call does and no call starts while it runs:
   the calls come one after the other, so one caller stands for all *)
NextProbe ==
    \E t \in LifeCallers :
      \/ probeDevices(t) \/ probe_next(t)
      \/ probe_serial(t) \/ probe_version(t) \/ probe_mode(t) \/ probe_params(t)
      \/ UsbStep(t)

SpecProbe == InitProbe /\ [][NextProbe]_vars

(* the process before the first getInstance *)
InitNoInstance == InitEmpty /\ _instance = 0 /\ impls = NoImpls

(* concurrent callers of getInstance *)
NextInstance ==
    \E t \in Threads :
      getInstance(t) \/ getInstance_new(t) \/ getInstance_return(t)

SpecInstance == InitNoInstance /\ [][NextInstance]_vars

(* one caller at a time: getInstance, probeDevices, the registry queries, shutdown *)
InitLife == InitNoInstance \/ InitProbe \/ InitAttached

OnInstance(t) ==
    /\ 0 # _instance
    /\ \/ probeDevices(t) \/ countDevices_call(t) \/ getDeviceID(t)
       \/ getSerialNumber(t) \/ getVersion(t)

NextLife ==
    \E t \in LifeCallers :
      \/ Serial /\ (getInstance(t) \/ shutdown(t) \/ OnInstance(t))
      \/ getInstance_new(t) \/ getInstance_return(t)
      \/ probe_next(t)
      \/ probe_serial(t) \/ probe_version(t) \/ probe_mode(t) \/ probe_params(t)
      \/ UsbStep(t)

SpecLife == InitLife /\ [][NextLife]_vars

(* calls that come one after the other on the registry a probe leaves in which every
   candidate but one succeeded: wider inputs, every firmware *)
InitSeq ==
    \E skipped \in Cands :
      Attached(SelectSeq([i \in 1..NCand |-> i], LAMBDA c : c # skipped), NCand)

SeqStep(t) ==
    \/ setMode_store(t) \/ setMode_memcpy(t)
    \/ setParameters_store(t) \/ setParameters_memcpy(t)
    \/ UsbStep(t)

NextSeq ==
    \E t \in LifeCallers :
      \/ setModeOf(t, ModeInputs)
      \/ setParametersOf(t, ParamInputsWide)
      \/ getParameters(t) \/ setParametersBack(t)
      \/ setStartParametersOf(t, StartInputsWide)
      \/ setSpeedOf(t, SpeedInputsWide) \/ getSpeed(t)
      \/ moveTo(t) \/ getState(t)
      \/ SeqStep(t)

SpecSeq == InitSeq /\ [][NextSeq]_vars

(* the packet codec of setMode: MaxCodecCalls calls, every single-flag Mode *)
NextCodec ==
    \E t \in LifeCallers :
      \/ ncalls < MaxCodecCalls /\ (setModeOf(t, ModeInputsWide) \/ getMode(t))
      \/ setMode_store(t) \/ setMode_memcpy(t)
      \/ UsbStep(t)

SpecCodec == InitSeq /\ [][NextCodec]_vars

(* fairness: a caller that can take a step of its call takes it; each control
   transfer returns; the mutex serves every waiter *)
CallStep(t) ==
    \/ control_transfer_submit(t) \/ control_transfer_complete(t) \/ usmc_return(t)
    \/ setMode_store(t) \/ setMode_memcpy(t)
    \/ setParameters_store(t) \/ setParameters_memcpy(t)

SpecLive ==
    /\ Spec
    /\ \A t \in Threads : WF_vars(CallStep(t)) /\ SF_vars(USMC_lock_ctor(t))

(* ------------------------------------------------------------------ *)
(* Properties                                                           *)
(* ------------------------------------------------------------------ *)
Ids == 0..(Len(_dev) - 1)
LockedBy(t) == {id \in 0..(Len(_locks) - 1) : At(_locks, id) = t}
WireOps == {"getState", "getEncoderState", "setMode", "setParameters", "moveTo", "stop"}
SetOps == {"setMode", "setParameters"}
Done(t) == th[t].pc = "done"

(* C1: at most one control transfer is in flight per device, and the thread inside
   libusb_control_transfer on a device holds that device's lock *)
C1_OneTransferPerDevice ==
    \A c \in Cands :
      /\ Cardinality(inflight[c]) <= 1
      /\ \A t \in inflight[c] :
           /\ th[t].pc = "wait" /\ At(_dev, th[t].device) = c
           /\ At(_locks, th[t].device) = t

C1_Witness ==
    \E t \in Threads, u \in Threads :
      /\ t # u /\ th[t].pc = "wait" /\ t \in inflight[At(_dev, th[t].device)]
      /\ th[u].pc = "lock" /\ th[u].device = th[t].device
      /\ th[t].op \in WireOps /\ th[u].op \in WireOps

(* C2: no caller holds two device locks, the only lock a call on device A takes is
   A's, and a caller about to lock A waits only for a holder that operates on A *)
C2_OwnLockOnly ==
    \A t \in Threads :
      /\ Cardinality(LockedBy(t)) <= 1
      /\ InCall(t) \/ Done(t) => th[t].acquired \subseteq {th[t].device}
      /\ th[t].pc = "lock" =>
           \/ ENABLED USMC_lock_ctor(t)
           \/ /\ At(_locks, th[t].device) # NoThread
              /\ th[At(_locks, th[t].device)].device = th[t].device

C2_Witness ==
    \E t \in Threads, u \in Threads :
      /\ th[t].pc = "wait" /\ th[u].pc = "wait"
      /\ th[t].device # th[u].device
      /\ At(_locks, th[t].device) = t /\ At(_locks, th[u].device) = u

(* C3: a device lock is held only by a caller inside its transaction on that device:
   once the call has returned, with success or with a transport error, it is free *)
C3_LockHeldOnlyInTransaction ==
    \A id \in 0..(Len(_locks) - 1) :
      At(_locks, id) # NoThread =>
        /\ th[At(_locks, id)].device = id
        /\ th[At(_locks, id)].pc \in {"xfer", "wait", "unlock"}

C3_Witness ==
    \E t \in Threads :
      /\ Done(t) /\ th[t].ret \in UsbErrors /\ th[t].acquired = {th[t].device}
      /\ LockedBy(t) = {}

(* C4: every call that was invoked returns, whatever the other callers do *)
C4_EveryCallReturns == \A t \in Threads : InCall(t) ~> Done(t)

C4_Witness ==
    \E t \in Threads, u \in Threads :
      /\ th[t].pc = "lock" /\ At(_locks, th[t].device) = u
      /\ th[u].pc = "unlock" /\ th[u].res < 0

(* C5: the cached Mode/Parameters of a device are written only by a caller holding the
   device lock, and the cache never holds a partially written record *)
C5_CacheWrittenUnderLock ==
    /\ \A t \in Threads :
         (th[t].op \in SetOps /\ (th[t].pc = "memcpy"
                                  \/ (th[t].pc = "after" /\ StoresAfter(th[t].r))))
           => At(_locks, th[t].device) = t
    /\ \A id \in Ids :
         /\ At(_mode, id) \in {DefaultMode} \cup ModeInputs
         /\ At(_params, id) \in {DefaultParams} \cup ParamInputs

(* the last packet of function f the controller acknowledged *)
LastPkt(log, f) ==
    LET at == {i \in 1..Len(log) : log[i].fn = f}
    IN  log[CHOOSE i \in at : \A j \in at : j <= i].pkt

(* C6: once every setMode/setParameters has returned, the cached record is the one the
   last acknowledged hardware write carried *)
C6_CacheMatchesHardware ==
    (\A t \in Threads : ~InCall(t)) =>
      \A id \in Ids :
        /\ \E ub \in Indeterminate :
             LastPkt(hw[At(_dev, id)], "usmc_set_mode")
               = usmc_set_mode_packet(At(_mode, id), ub)
        /\ \E c \in CastOutcomes :
             LastPkt(hw[At(_dev, id)], "usmc_set_parameters")
               = usmc_set_parameters_packet(At(_version, id), At(_params, id), c)

(* C7: setMode/setParameters write the cache iff the hardware write succeeded, and
   what they write is the caller's input; on a transport error they return that error
   and write nothing *)
C7_Returned ==
    \A t \in Threads :
      (Done(t) /\ th[t].op \in SetOps /\ th[t].issued > 0) =>
        /\ th[t].res < 0 => th[t].ret = th[t].res /\ ~th[t].stored
        /\ th[t].res >= 0 => th[t].ret = ERR_SUCCESS /\ th[t].stored

C7_Writes(cache, op) ==
    \A id \in Ids :
      At(cache', id) # At(cache, id) =>
        \E t \in Threads :
          /\ th[t].op = op /\ th[t].device = id /\ th[t].res >= 0
          /\ th[t].pc \in {"after", "memcpy"}
          /\ \A f \in DOMAIN At(cache, id) :
               At(cache', id)[f] \in {At(cache, id)[f], th[t].arg.val[f]}
          /\ (th'[t].pc = "done" /\ ~\E u \in Threads \ {t} :
                                       th[u].op = op /\ th[u].device = id)
               => At(cache', id) = th[t].arg.val

C7_WriteThroughOnSuccess ==
    /\ [](C7_Returned)
    /\ [][C7_Writes(_mode, "setMode") /\ C7_Writes(_params, "setParameters")]_vars

C7_Witness ==
    \E t \in Threads, u \in Threads :
      /\ Done(t) /\ th[t].op = "setMode" /\ th[t].ret \in UsbErrors
      /\ At(_mode, th[t].device) = DefaultMode
      /\ Done(u) /\ th[u].op = "setParameters" /\ th[u].ret = ERR_SUCCESS
      /\ At(_params, th[u].device) = th[u].arg.val

(* C8: a call that returns invalid-identifier, invalid-parameter or invalid-value has
   issued no transfer, taken no lock and changed no cache *)
C8_Returned ==
    \A t \in Threads :
      (Done(t) /\ th[t].ret \in ValidationErrors) =>
        th[t].issued = 0 /\ th[t].acquired = {} /\ ~th[t].stored

C8_Step ==
    \A t \in Threads :
      (th'[t] # th[t] /\ th'[t].pc = "done" /\ th'[t].ret \in ValidationErrors) =>
        UNCHANGED <<regVars, inflight, hw>>

C8_RejectedCallsTouchNothing == [](C8_Returned) /\ [][C8_Step]_vars

C8_Witness ==
    \E t \in Threads, u \in Threads :
      /\ Done(t) /\ th[t].op = "setParameters" /\ th[t].ret = ERR_INVALID_VALUE
      /\ Done(u) /\ th[u].op = "setSpeed" /\ th[u].ret = ERR_INVALID_VALUE
      /\ At(_speed, th[u].device) = DefaultSpeed

(* C9: in every per-device operation the call returns invalid-identifier iff the id is
   out of bounds; otherwise invalid-parameter iff a required pointer is null; otherwise
   invalid-value iff a range-checked field is out of range; none of these issues a
   transfer *)
C9_OutOfRange(c) ==
    \/ c.op = "setParameters" /\ ~ParamsInRange(c.arg.val)
    \/ c.op = "setSpeed" /\ ~SpeedInRange(c.arg.val)

C9_ValidationPriority ==
    \A t \in Threads :
      (Done(t) /\ th[t].op # "probeDevices") =>
        LET c == th[t]
        IN  /\ c.ret = ERR_INVALID_ID <=> ~checkDevice(c.device)
            /\ checkDevice(c.device) => (c.ret = ERR_INVALID_PARAM <=> c.arg.null)
            /\ (checkDevice(c.device) /\ ~c.arg.null)
                 => (c.ret = ERR_INVALID_VALUE <=> C9_OutOfRange(c))
            /\ c.ret \in ValidationErrors => c.issued = 0

(* C10: after a first probeDevices the attached devices are the candidates on which
   every step succeeded, in bus order under ids 0..k-1, and k is returned *)
RECURSIVE Succeeded(_)
Succeeded(i) ==
    IF i = 0 THEN << >>
    ELSE IF bus[i].c \in probe.matched /\ ~\E f \in probe.failed : f[1] = bus[i].c
         THEN Append(Succeeded(i - 1), bus[i].c)
         ELSE Succeeded(i - 1)

C10_ProbeAttachesSucceeding ==
    \A t \in Threads :
      (Done(t) /\ th[t].op = "probeDevices" /\ ncalls = 1 /\ th[t].ret >= 0) =>
        /\ _dev = Succeeded(Len(bus))
        /\ th[t].ret = Len(_dev)
        /\ _serial = [i \in 1..Len(_dev) |-> SerialOf(_dev[i])]
        /\ _version = [i \in 1..Len(_dev) |-> VersionOf(_dev[i])]
        /\ Len(_locks) = Len(_dev) /\ Len(_speed) = Len(_dev)
        /\ Len(_params) = Len(_dev) /\ Len(_mode) = Len(_dev)
        /\ Len(_start_params) = Len(_dev)

C10_Witness ==
    \E t \in Threads :
      /\ Done(t) /\ th[t].op = "probeDevices" /\ ncalls = 1
      /\ \A i \in 1..Len(bus) : bus[i].usmc
      /\ probe.failed = {<<2, "usmc_get_serial">>}
      /\ _dev = <<1, 3>> /\ _serial = <<SerialOf(1), SerialOf(3)>> /\ th[t].ret = 2

(* the rows of the registry that stand for attached devices: all of them, except
   the last one while probeDevices is still setting it up *)
AttachedRows ==
    IF \E t \in Threads : th[t].op = "probeDevices" /\ InCall(t) /\ th[t].pc # "probe_loop"
    THEN probe.id
    ELSE Len(_dev)

RegisteredOn(c) == {i \in 1..Len(_dev) : _dev[i] = c}
SetupFailures == {f \in probe.failed : f[2] # "libusb_open"}

(* C11: a probeDevices that got past enumeration returns the number of attached
   devices: its result equals countDevices right after the call and every id below
   it is valid, on the first call and on every later one *)
C11_ProbeReturnsCount ==
    \A t \in Threads :
      (Done(t) /\ th[t].op = "probeDevices" /\ th[t].ret >= 0) =>
        /\ th[t].ret = countDevices
        /\ \A id \in 0..(th[t].ret - 1) : checkDevice(id)

(* C12: between calls every per-device vector has the length of _dev, every row has
   its open handle, and every handle opened is registered or closed, none twice *)
C12_RecordIffOpenHandle ==
    Serial =>
      /\ Len(_locks) = Len(_dev) /\ Len(_serial) = Len(_dev) /\ Len(_version) = Len(_dev)
      /\ Len(_mode) = Len(_dev) /\ Len(_params) = Len(_dev)
      /\ Len(_start_params) = Len(_dev) /\ Len(_speed) = Len(_dev)
      /\ \A c \in Cands : handles.open[c] = Cardinality(RegisteredOn(c))
      /\ ~handles.stale

C12_Witness ==
    \E t \in Threads, c \in Cands :
      /\ Done(t) /\ th[t].op = "shutdown" /\ th[t].stored
      /\ SetupFailures # {} /\ handles.closed[c] = 2

(* C13: the serial and version of an attached id do not change while the instance
   lives, whatever later probes do, and the getters return them *)
C13_Step ==
    (_instance' = _instance) =>
      \A i \in 1..AttachedRows :
        /\ i <= Len(_serial') /\ i <= Len(_version') /\ i <= Len(_dev')
        /\ _serial'[i] = _serial[i] /\ _version'[i] = _version[i] /\ _dev'[i] = _dev[i]

C13_Getters ==
    \A t \in Threads :
      /\ (Done(t) /\ th[t].op = "getSerialNumber" /\ th[t].ret = ERR_SUCCESS)
           => th[t].out = SerialOf(At(_dev, th[t].device))
      /\ (Done(t) /\ th[t].op = "getVersion" /\ th[t].ret = ERR_SUCCESS)
           => th[t].out = VersionOf(At(_dev, th[t].device))

C13_StableIds == [](C13_Getters) /\ [][C13_Step]_vars

C13_Witness ==
    \E t \in Threads :
      /\ Done(t) /\ th[t].op = "getSerialNumber" /\ th[t].device = 0
      /\ th[t].out = SerialOf(1)
      /\ \E f \in SetupFailures : f[2] = "usmc_get_serial"
      /\ Len(_dev) > NDev

(* C14: getDeviceID returns the smallest id whose serial is the argument, -1 iff
   there is none, and the serial of a returned id is the argument *)
C14_Matches(serial) == {id \in 0..(Len(_serial) - 1) : At(_serial, id) = serial}

C14_FirstMatch ==
    \A t \in Threads :
      (Done(t) /\ th[t].op = "getDeviceID") =>
        LET M == C14_Matches(th[t].arg.val)
        IN  /\ th[t].ret = -1 <=> M = {}
            /\ M # {} => th[t].ret \in M /\ \A id \in M : th[t].ret <= id
            /\ th[t].ret >= 0 =>
                 checkDevice(th[t].ret) /\ At(_serial, th[t].ret) = th[t].arg.val

C14_Witness ==
    \E t \in Threads :
      /\ Done(t) /\ th[t].op = "getDeviceID" /\ th[t].ret = 1
      /\ Cardinality(C14_Matches(th[t].arg.val)) = 2

(* C15: the getters issue no transfer, take no lock, store nothing, and for a valid
   id hand out the value last set with success, or the default of the probe *)
GetterOps ==
    {"getMode", "getParameters", "getStartParameters", "getSpeed", "getSerialNumber",
     "getVersion"}

C15_Settable(op, id) ==
    CASE op = "getMode" -> {DefaultMode} \cup ModeInputs
      [] op = "getParameters" -> {DefaultParams} \cup {p \in ParamInputs : ParamsInRange(p)}
      [] op = "getStartParameters" -> {DefaultStart} \cup StartInputs
      [] op = "getSpeed" -> {DefaultSpeed} \cup {v \in SpeedInputs : SpeedInRange(v)}
      [] op = "getSerialNumber" -> {At(_serial, id)}
      [] op = "getVersion" -> {At(_version, id)}

C15_GettersReadCache ==
    \A t \in Threads :
      (Done(t) /\ th[t].op \in GetterOps) =>
        /\ th[t].issued = 0 /\ th[t].acquired = {} /\ ~th[t].stored
        /\ th[t].ret = ERR_SUCCESS => th[t].out \in C15_Settable(th[t].op, th[t].device)

(* C16: a getState/getEncoderState with valid id and non-null output issues exactly
   one query under the device lock, and its snapshot is the decoding of the reply to
   that query with the device's firmware version *)
C16_FreshQuery ==
    \A t \in Threads :
      (Done(t) /\ th[t].op \in {"getState", "getEncoderState"}
         /\ checkDevice(th[t].device) /\ ~th[t].arg.null) =>
        /\ th[t].issued = 1 /\ th[t].acquired = {th[t].device}
        /\ th[t].ret = ERR_SUCCESS =>
             th[t].state = usmc_output(th[t].fn, At(_version, th[t].device), th[t].reply)

(* C17: with no instance there is no row, no open handle and no live object, no
   handle was closed twice; a shutdown without instance changes nothing; getInstance
   after it hands out a live registry, empty when newly constructed *)
C17_State ==
    /\ 0 = _instance =>
         /\ Len(_dev) = 0 /\ Len(_locks) = 0 /\ Len(_serial) = 0 /\ Len(_version) = 0
         /\ Len(_mode) = 0 /\ Len(_params) = 0 /\ Len(_start_params) = 0 /\ Len(_speed) = 0
         /\ \A c \in Cands : handles.open[c] = 0
         /\ impls.live = {}
    /\ ~handles.stale
    /\ \A t \in Threads :
         /\ (Done(t) /\ th[t].op = "shutdown") => 0 = _instance
         /\ (Done(t) /\ th[t].op = "getInstance" /\ th[t].res = 0) =>
              /\ th[t].ret = _instance /\ th[t].ret \in impls.live
              /\ th[t].stored => Len(_dev) = 0

C17_Step ==
    (0 = _instance /\ \E t \in Threads : th'[t] # th[t] /\ th'[t].op = "shutdown")
      => UNCHANGED <<regVars, _instance, impls, handles>>

C17_ShutdownIdempotent == [](C17_State) /\ [][C17_Step]_vars

C17_Witness ==
    \E t \in Threads :
      /\ Done(t) /\ th[t].op = "shutdown" /\ ~th[t].stored /\ ncalls >= 2
      /\ \A c \in 1..NDev : handles.closed[c] = 1

(* C18: concurrent getInstance calls construct exactly one instance and all return it *)
C18_OneInstance ==
    /\ impls.made <= 1
    /\ \A t \in Threads, u \in Threads :
         (Done(t) /\ th[t].op = "getInstance" /\ th[t].res = 0
            /\ Done(u) /\ th[u].op = "getInstance" /\ th[u].res = 0)
           => th[t].ret = th[u].ret

(* C19: setCurrentPosition with a valid id issues exactly one transfer under the
   device lock and returns 0 or the transport error; with an invalid id it returns
   ERR_INVALID_ID and issues none; its result is never positive *)
C19_SetCurrentPosition ==
    \A t \in Threads :
      (Done(t) /\ th[t].op = "setCurrentPosition") =>
        /\ th[t].ret <= 0
        /\ IF checkDevice(th[t].device)
           THEN /\ th[t].issued = 1 /\ th[t].acquired = {th[t].device}
                /\ th[t].ret = usmc_result(th[t].res)
           ELSE th[t].ret = ERR_INVALID_ID /\ th[t].issued = 0

(* C20: a wire operation makes one transfer attempt; a negative transfer result is
   its result, and any byte count, full or short, gives 0 *)
C20_ErrorsSurfaced ==
    \A t \in Threads :
      (Done(t) /\ th[t].op \in WireOps /\ th[t].issued > 0) =>
        /\ th[t].issued = 1
        /\ th[t].res < 0 => th[t].ret = th[t].res
        /\ th[t].res >= 0 => th[t].ret = 0

C20_Witness ==
    \E t \in Threads, u \in Threads :
      /\ Done(t) /\ th[t].op = "moveTo" /\ th[t].res = wLength("usmc_goto") - 1
      /\ th[t].ret = 0
      /\ Done(u) /\ th[u].op = "getState" /\ th[u].ret = ERR_USB_TIMEOUT
      /\ th[u].issued = 1


(* the Parameters record a caller inside usmc_set_parameters is sending: the caller's
   input in setParameters, the cached defaults in probeDevices *)
ParamsCarried(t) ==
    IF th[t].op = "probeDevices" THEN At(_params, th[t].device) ELSE th[t].arg.val

(* C21: every parameters write sent to the hardware, the default parameters of
   probeDevices included, carries a Parameters record all of whose fields lie in the
   ranges setParameters enforces *)
C21_WritesInRange ==
    \A t \in Threads :
      (th[t].pc = "wait" /\ th[t].fn = "usmc_set_parameters")
        => ParamsInRange(ParamsCarried(t))

(* the 16-bit fields of PARAMETERS_PACKET that receive a converted float *)
WordFields ==
    {"RefINTimeout", "BTIMEOUT1", "BTIMEOUT2", "BTIMEOUT3", "BTIMEOUT4", "BTIMEOUTR",
     "BTIMEOUTD", "MINPERIOD", "BTO1P", "BTO2P", "BTO3P", "BTO4P", "MAX_LOFT",
     "RTDelta", "RTMinError", "MaxTemp", "LoftPeriod"}

(* every value usmc_set_parameters computes is representable in the packet field it
   is assigned to: no narrowing conversion changes it *)
FitsPacket(version, params) ==
    \A c \in CastOutcomes :
      LET v == usmc_set_parameters_values(version, params, c)
      IN  /\ FitsU8(v.DELAY1) /\ FitsU8(v.DELAY2)
          /\ \A f \in WordFields : FitsU16(v[f])
          /\ FitsU8(v.SynOUTP)
          /\ FitsU8(v.EncVSCP)
          /\ v.STARTPOS.over = 0

(* a caller of setParameters whose input passed every range check and is on the wire *)
SendsAccepted(t) ==
    /\ th[t].op = "setParameters" /\ th[t].fn = "usmc_set_parameters"
    /\ th[t].pc = "wait"

(* C22: every Parameters record setParameters accepts is encoded without any numeric
   field exceeding the width of its 8-, 16- or 32-bit wire field *)
C22_NoNarrowing ==
    \A t \in Threads :
      SendsAccepted(t) => FitsPacket(At(_version, th[t].device), th[t].arg.val)

(* setParameters returned ERR_SUCCESS to caller t *)
SetParametersDone(t) ==
    Done(t) /\ th[t].op = "setParameters" /\ th[t].ret = ERR_SUCCESS

(* the step in which caller t, back from a successful setParameters, calls it again on
   the same device with the same record and reaches usmc_set_parameters *)
SetParametersAgain(t) ==
    /\ SetParametersDone(t)
    /\ th'[t].op = "setParameters" /\ th'[t].fn = "usmc_set_parameters"
    /\ th'[t].device = th[t].device /\ th'[t].arg = th[t].arg

C23_Step ==
    \A t \in LifeCallers : SetParametersAgain(t) => th'[t].pkt = th[t].pkt

C23_Returned ==
    \A t \in LifeCallers :
      SetParametersDone(t) => At(_params, th[t].device) = th[t].arg.val

(* C23: two successive setParameters calls on one device with the same accepted record
   put the same packet on the wire (header words and payload), and after each of them
   the cached Parameters equal that record *)
C23_Idempotent == [](C23_Returned) /\ [][C23_Step]_vars

(* the second of two such calls is in its transfer: the cache holds its record from
   the first call, and the controller the same packet *)
C23_Witness ==
    \E t \in LifeCallers :
      /\ th[t].pc = "wait" /\ th[t].op = "setParameters" /\ ncalls = 2
      /\ At(_params, th[t].device) = th[t].arg.val
      /\ LastPkt(hw[At(_dev, th[t].device)], "usmc_set_parameters") = th[t].pkt

(* lo <= v <= hi for a float v: no inequality holds of NaN *)
Within(v, lo, hi) == v # NaN /\ lo <= v /\ v <= hi

(* caller t is in, or back from, a call of o whose device id and pointer were valid *)
PastIdCheck(t, o) ==
    /\ th[t].op = o /\ th[t].pc # "idle"
    /\ checkDevice(th[t].device) /\ ~th[t].arg.null

Rejected(t) == Done(t) /\ th[t].fn = "none" /\ th[t].ret = ERR_INVALID_VALUE

(* C24: setParameters accepts AccelT and DecelT exactly when 49.0 <= value <= 1518.0,
   setSpeed accepts exactly when 16.0 <= speed <= 5000.0, and what lies outside is
   answered with invalid-value *)
C24_InclusiveBounds ==
    \A t \in Threads :
      /\ PastIdCheck(t, "setParameters") =>
           (~Rejected(t) => /\ Within(th[t].arg.val["AccelT"], 49000, 1518000)
                            /\ Within(th[t].arg.val["DecelT"], 49000, 1518000))
      /\ PastIdCheck(t, "setSpeed") =>
           (~Rejected(t) <=> Within(th[t].arg.val, 16000, 5000000))

(* getState returned ERR_SUCCESS to caller t: the controller's firmware is 0x2400 or
   later and the reply carried the raw temperature 32768 *)
ReadHalfScale(t) ==
    /\ Done(t) /\ th[t].op = "getState" /\ th[t].ret = ERR_SUCCESS
    /\ th[t].fn = "usmc_get_state"
    /\ At(_version, th[t].device) >= FW_TEMP
    /\ th[t].reply.Temp = 32768

(* C25: on firmware 0x2400 or later getState converts the raw temperature 32768 by
   raw * 3.3 * 100 / 65536 - 50, which is 115.0 degrees C *)
C25_HalfScaleTemp ==
    \A t \in Threads : ReadHalfScale(t) => th[t].state.Temp = 115000

C25_Witness == \E t \in Threads : ReadHalfScale(t) /\ th[t].state.Temp = 115000

(* C25 as stated: the same conversion yields 15.0 degrees C *)
C25_AsStated ==
    \A t \in Threads : ReadHalfScale(t) => th[t].state.Temp = 15000

(* caller t of moveTo is inside the transfer of usmc_goto *)
Moving(t) == th[t].op = "moveTo" /\ th[t].fn = "usmc_goto" /\ th[t].pc = "wait"

(* the timer period a move packet carries, its bytes back in host order *)
PeriodSent(t) == PACK_WORD(th[t].pkt.TimerPeriod)

(* C26: the timer period of every move packet is round(65536 - 1000000/s) for the
   cached speed s clamped to [16, 5000]: 60536 for the speed 200, and always within
   [3036, 65336] *)
C26_TimerPeriod ==
    \A t \in Threads :
      Moving(t) =>
        /\ PeriodSent(t) \in 3036..65336
        /\ At(_speed, th[t].device) = 200000 => PeriodSent(t) = 60536

(* the documented layout of the three flag bytes of the mode packet, bit 0 first, under
   the names the flags have in the Mode record; BUTSWAP has no field there *)
FlagLayout ==
    << <<"PMode", "PReg", "ResetD", "EMReset", "Tr1T", "Tr2T", "RotTrT", "TrSwap">>,
       <<"Tr1En", "Tr2En", "RotTeEn", "RotTrOp", "Butt1T", "Butt2T", "BUTSWAP", "ResetRT">>,
       <<"SyncOUTEn", "SyncOUTR", "SyncINOp", "SyncInvert", "EncoderEn", "EncoderInv",
         "ResBEnc", "ResEnc">> >>

(* the byte that has exactly the bits of the flags set in mode *)
ByteOfFlags(flags, mode) ==
    LET on(i) == flags[i] \in DOMAIN mode /\ mode[flags[i]]
        RECURSIVE upto(_)
        upto(i) == IF i = 0 THEN 0 ELSE upto(i - 1) + Bit(on(i)) * 2 ^ (i - 1)
    IN  upto(Len(flags))

(* caller t of setMode is inside the transfer of usmc_set_mode *)
SendsMode(t) == th[t].op = "setMode" /\ th[t].fn = "usmc_set_mode" /\ th[t].pc = "wait"

(* C27: for a Mode with one flag set, the mode packet has that flag's documented bit
   set and every other bit of the three flag bytes zero, the BUTSWAP bit included, so
   the flag bytes are a function of the Mode *)
C27_SingleFlagBytes ==
    \A t \in Threads :
      (SendsMode(t) /\ th[t].arg.val \in SingleFlagModes) =>
        /\ th[t].pkt.byte0 = ByteOfFlags(FlagLayout[1], th[t].arg.val)
        /\ th[t].pkt.byte1 = ByteOfFlags(FlagLayout[2], th[t].arg.val)
        /\ th[t].pkt.byte2 = ByteOfFlags(FlagLayout[3], th[t].arg.val)

(* the 2-bit code (M2, M1) of a step divisor: 1 -> 00, 2 -> 01, 4 -> 10, 8 -> 11 *)
DivisorCode(d) == CASE d = 1 -> 0 [] d = 2 -> 1 [] d = 4 -> 2 [] d = 8 -> 3 [] OTHER -> -1

(* C28: the cached step divisor of every device is one of 1, 2, 4, 8, and every move
   packet carries it as the 2-bit code (M2, M1), which the cached divisor determines *)
C28_DivisorCode ==
    /\ \A id \in 0..(countDevices - 1) :
         At(_start_params, id)["SDivisor"] \in {1, 2, 4, 8}
    /\ \A t \in Threads :
         Moving(t) => 2 * th[t].pkt.M2 + th[t].pkt.M1
                        = DivisorCode(At(_start_params, th[t].device)["SDivisor"])

(* the place of each usmc_* call in the set-up of a candidate by probeDevices *)
ProbeOrder == <<"usmc_get_serial", "usmc_get_version", "usmc_set_mode", "usmc_set_parameters">>

(* caller t runs probeDevices and is inside a control transfer *)
ProbeTransfer(t) == th[t].op = "probeDevices" /\ th[t].pc = "wait"

C29_Transfers ==
    \A t \in Threads :
      ProbeTransfer(t) =>
        /\ th[t].issued \in 1..4 /\ th[t].fn = ProbeOrder[th[t].issued]
        /\ th[t].device = probe.id /\ At(_locks, th[t].device) = t
        /\ th[t].fn = "usmc_set_mode" =>
             \E ub \in Indeterminate : th[t].pkt = usmc_set_mode_packet(DefaultMode, ub)
        /\ th[t].fn = "usmc_set_parameters" =>
             \E c \in CastOutcomes :
               th[t].pkt = usmc_set_parameters_packet(VersionOf(At(_dev, probe.id)),
                                                      DefaultParams, c)

C29_Defaults ==
    \A t \in Threads :
      (Done(t) /\ th[t].op = "probeDevices" /\ th[t].ret >= 0) =>
        \A id \in Ids :
          /\ At(_mode, id) = DefaultMode /\ At(_params, id) = DefaultParams
          /\ At(_start_params, id) = DefaultStart /\ At(_speed, id) = 200000
          /\ At(_start_params, id)["SDivisor"] = 8

C29_Step ==
    probe'.count > probe.count =>
      \E t \in Threads :
        /\ ProbeAfter(t, "usmc_set_parameters") /\ th[t].issued = 4 /\ th[t].r >= 0
        /\ probe'.count = probe.count + 1
        /\ Len(_dev') = Len(_dev) /\ Len(_dev) = probe.id + 1

(* C29: on each candidate probeDevices issues serial read, version read, default mode
   write and default parameters write, in this order and each under the device's lock;
   it counts the candidate only after the fourth succeeded; when it has returned, the
   cached Mode, Parameters, StartParameters and Speed are the defaults *)
C29_ProbeSequence == [](C29_Transfers /\ C29_Defaults) /\ [][C29_Step]_vars

(* a probe that attached one candidate and rolled another back after its mode write *)
C29_Witness ==
    \E t \in Threads :
      /\ Done(t) /\ th[t].op = "probeDevices" /\ th[t].ret = 1 /\ Len(_dev) = 1
      /\ \E c \in Cands : <<c, "usmc_set_mode">> \in probe.failed
      /\ At(_params, 0) = DefaultParams /\ At(_speed, 0) = 200000
      /\ \E c \in Cands : Len(hw[c]) = 2

(* the arguments the interface documents as valid: a speed within [16, 5000] and a
   step divisor of 1, 2, 4 or 8 *)
ValidSpeed(speed) == Within(speed, 16000, 5000000)
ValidStart(start) == start["SDivisor"] \in {1, 2, 4, 8}

(* caller t is back from setSpeed or setStartParameters called with a valid id and
   valid arguments *)
SetLocally(t) ==
    /\ Done(t) /\ checkDevice(th[t].device) /\ ~th[t].arg.null
    /\ \/ th[t].op = "setSpeed" /\ ValidSpeed(th[t].arg.val)
       \/ th[t].op = "setStartParameters" /\ ValidStart(th[t].arg.val)

C30_Returned ==
    \A t \in Threads :
      /\ SetLocally(t) =>
           /\ th[t].ret = ERR_SUCCESS /\ th[t].issued = 0 /\ th[t].acquired = {}
           /\ th[t].fn = "none"
           /\ th[t].op = "setSpeed" => At(_speed, th[t].device) = th[t].arg.val
           /\ th[t].op = "setStartParameters" =>
                At(_start_params, th[t].device) = th[t].arg.val
      /\ (th[t].op = "moveTo" /\ th[t].pc # "idle" /\ checkDevice(th[t].device)) =>
           /\ th[t].issued <= 1 /\ th[t].fn = "usmc_goto"
           /\ Done(t) => th[t].issued = 1
           /\ (ValidSpeed(At(_speed, th[t].device))
                 /\ ValidStart(At(_start_params, th[t].device))) =>
                \A ub \in Indeterminate, c \in CastOutcomes :
                  th[t].pkt = usmc_goto_packet(th[t].arg.val, At(_speed, th[t].device),
                                               At(_start_params, th[t].device), ub, c)

(* a step changes a cached speed or StartParameters only as the call of setSpeed or
   setStartParameters on that device, and no step of moveTo changes either *)
C30_Step ==
    \A id \in Ids :
      /\ At(_speed', id) # At(_speed, id) =>
           \E t \in Threads : th'[t].op = "setSpeed" /\ th'[t].device = id /\ Done(t)'
                              /\ th'[t].arg.val = At(_speed', id) /\ ncalls' = ncalls + 1
      /\ At(_start_params', id) # At(_start_params, id) =>
           \E t \in Threads : th'[t].op = "setStartParameters" /\ th'[t].device = id
                              /\ Done(t)' /\ th'[t].arg.val = At(_start_params', id)
                              /\ ncalls' = ncalls + 1

(* C30: setStartParameters and setSpeed with valid arguments succeed without any wire
   transaction; each moveTo issues one move write, computed from the Speed and
   StartParameters last set for its own device; moveTo leaves both caches as they are *)
C30_LocalCaches == [](C30_Returned) /\ [][C30_Step]_vars

(* a move on a device whose cached speed, set by the call before, differs from the
   other device's *)
C30_Witness ==
    \E t \in Threads, other \in Ids :
      /\ Moving(t) /\ ncalls = 2 /\ other # th[t].device
      /\ At(_speed, th[t].device) = 16000 /\ At(_speed, other) = 200000
      /\ PeriodSent(t) = 3036

(* ------------------------------------------------------------------ *)
(* The bytes of the write packets and the words of their setup packet   *)
(* ------------------------------------------------------------------ *)
(* the two bytes of a 16-bit field in memory, and the four of a 32-bit one *)
BytesOfWord(w) == <<w % 256, w \div 256>>
BytesOfDWord(dw) == BytesOfWord(dw.lo) \o BytesOfWord(dw.hi)

(* GO_TO_PACKET under "#pragma pack(push, 1)": DestPos, TimerPeriod and one byte of
   flags, 7 bytes *)
GO_TO_PACKET(pkt) ==
    BytesOfDWord(pkt.DestPos) \o BytesOfWord(pkt.TimerPeriod)
    \o <<pkt.M1 + 2 * pkt.M2 + 4 * pkt.DEFDIR + 8 * pkt.LOFTEN + 16 * pkt.SLSTRT
         + 32 * pkt.WSYNCIN + 64 * pkt.SYNCOUTR + 128 * pkt.FORCELOFT>>

(* MODE_PACKET: the three bytes of flags and the 16-bit SYNCCOUNT, 5 bytes *)
MODE_PACKET(pkt) == <<pkt.byte0, pkt.byte1, pkt.byte2>> \o BytesOfWord(pkt.SYNCCOUNT)

(* PARAMETERS_PACKET: 57 bytes, the last 15 the Reserved bytes that
   "memset(setParametersData.Reserved, 0, 15)" clears *)
PARAMETERS_PACKET(pkt) ==
    <<pkt.DELAY1, pkt.DELAY2>>
    \o BytesOfWord(pkt.RefINTimeout)
    \o BytesOfWord(pkt.BTIMEOUT1) \o BytesOfWord(pkt.BTIMEOUT2)
    \o BytesOfWord(pkt.BTIMEOUT3) \o BytesOfWord(pkt.BTIMEOUT4)
    \o BytesOfWord(pkt.BTIMEOUTR) \o BytesOfWord(pkt.BTIMEOUTD)
    \o BytesOfWord(pkt.MINPERIOD)
    \o BytesOfWord(pkt.BTO1P) \o BytesOfWord(pkt.BTO2P)
    \o BytesOfWord(pkt.BTO3P) \o BytesOfWord(pkt.BTO4P)
    \o BytesOfWord(pkt.MAX_LOFT)
    \o BytesOfDWord(pkt.STARTPOS)
    \o BytesOfWord(pkt.RTDelta) \o BytesOfWord(pkt.RTMinError)
    \o BytesOfWord(pkt.MaxTemp)
    \o <<pkt.SynOUTP>>
    \o BytesOfWord(pkt.LoftPeriod)
    \o <<pkt.EncVSCP>>
    \o [i \in 1..15 |-> 0]

(* the first and the second __u16 at p, each read in the byte order of the host *)
FIRST_WORD(p) == p[1] + 256 * p[2]
SECOND_WORD(p) == p[3] + 256 * p[4]
(* "(FIRST_BYTE(p)<<8)|SECOND_BYTE(p)" and "(THIRD_BYTE(p)<<8)|FOURTH_BYTE(p)" *)
FIRST_WORD_SWAPPED(p) == p[1] * 256 + p[2]
SECOND_WORD_SWAPPED(p) == p[3] * 256 + p[4]

(* variant: usmc_goto with the words of usmc_set_parameters *)
usmc_goto_setup_AsParameters(p) ==
    [wValue |-> FIRST_WORD_SWAPPED(p), wIndex |-> SECOND_WORD(p)]

(* "wIndex = FIRST_WORD(&goToData); wValue = SECOND_WORD(&goToData);" *)
usmc_goto_setup(p) == [wValue |-> SECOND_WORD(p), wIndex |-> FIRST_WORD(p)]
(* "wValue = FIRST_WORD_SWAPPED(&setModeData); wIndex = SECOND_WORD_SWAPPED(...);" *)
usmc_set_mode_setup(p) ==
    [wValue |-> FIRST_WORD_SWAPPED(p), wIndex |-> SECOND_WORD_SWAPPED(p)]
(* "wValue = FIRST_WORD_SWAPPED(&setParametersData); wIndex = SECOND_WORD(...);" *)
usmc_set_parameters_setup(p) ==
    [wValue |-> FIRST_WORD_SWAPPED(p), wIndex |-> SECOND_WORD(p)]

(* a thread in the control transfer of a write, the bytes of the packet it built and
   the wValue and wIndex it passes *)
Writing(t) ==
    /\ th[t].fn \in {"usmc_goto", "usmc_set_mode", "usmc_set_parameters"}
    /\ th[t].pc = "wait"
RawBytes(t) ==
    CASE th[t].fn = "usmc_goto" -> GO_TO_PACKET(th[t].pkt)
      [] th[t].fn = "usmc_set_mode" -> MODE_PACKET(th[t].pkt)
      [] th[t].fn = "usmc_set_parameters" -> PARAMETERS_PACKET(th[t].pkt)
SetupOf(t) ==
    CASE th[t].fn = "usmc_goto" -> usmc_goto_setup(RawBytes(t))
      [] th[t].fn = "usmc_set_mode" -> usmc_set_mode_setup(RawBytes(t))
      [] th[t].fn = "usmc_set_parameters" -> usmc_set_parameters_setup(RawBytes(t))

(* the first four bytes of the packet, found again in the two words: the most
   significant byte of a word first, or its least significant byte first *)
MsbFirst(w) == <<w \div 256, w % 256>>
LsbFirst(w) == <<w % 256, w \div 256>>
HeaderBytes(p) == SubSeq(p, 1, 4)

(* C31: every write carries the first four bytes of its packet in wValue and wIndex,
   each request in its own way: the parameters write has bytes 0-1 in wValue, most
   significant first, and bytes 2-3 in wIndex in the order of the host; the mode
   write has bytes 0-1 in wValue and bytes 2-3 in wIndex, both most significant
   first; the move write has bytes 0-1 in wIndex and bytes 2-3 in wValue, both in the
   order of the host *)
C31_HeaderWords ==
    \A t \in Threads :
      Writing(t) =>
        LET s == SetupOf(t)
            b == HeaderBytes(RawBytes(t))
        IN  CASE th[t].fn = "usmc_set_parameters" ->
                   b = MsbFirst(s.wValue) \o LsbFirst(s.wIndex)
              [] th[t].fn = "usmc_set_mode" ->
                   b = MsbFirst(s.wValue) \o MsbFirst(s.wIndex)
              [] th[t].fn = "usmc_goto" ->
                   b = LsbFirst(s.wIndex) \o LsbFirst(s.wValue)

(* C31 as stated: all three writes in the one way, bytes 0-1 most significant first in
   one word and bytes 2-3 in the order of the host in the other *)
C31_OneConvention ==
    \A t \in Threads :
      Writing(t) =>
        LET s == SetupOf(t)
            b == HeaderBytes(RawBytes(t))
        IN  \/ b = MsbFirst(s.wValue) \o LsbFirst(s.wIndex)
            \/ b = MsbFirst(s.wIndex) \o LsbFirst(s.wValue)

(* a move to the position 5: DestPos 40 has the bytes 40, 0, 0, 0, sent as wIndex 40
   (0x0028, not 0x2800) and wValue 0 *)
C31_Witness ==
    \E t \in Threads :
      /\ Moving(t) /\ HeaderBytes(RawBytes(t)) = <<40, 0, 0, 0>>
      /\ SetupOf(t) = [wValue |-> 0, wIndex |-> 40]

(* the packet sizes the comments of usmctypes.h give *)
StatedSize(f) ==
    CASE f = "usmc_get_state" -> 11
      [] f = "usmc_get_encoder_state" -> 8
      [] f = "usmc_goto" -> 7
      [] f = "usmc_set_mode" -> 7
      [] f = "usmc_set_parameters" -> 57

(* the offsets, from the start of the packet, of the bytes a write passes to
   libusb_control_transfer as its data: wLength bytes from "&packet + 4" *)
PayloadOffsets(f) == 4 .. (4 + wLength(f) - 1)

(* C32: a read asks for the whole of its packet (11 bytes of state, 8 of encoder
   state); the record a write builds has the stated size (7 move, 7 mode, 57
   parameters) and every byte of the payload, the bytes from offset 4 on, lies inside
   that record *)
C32_PayloadInside ==
    \A t \in Threads :
      /\ th[t].pc = "wait" /\ th[t].fn \in {"usmc_get_state", "usmc_get_encoder_state"}
           => wLength(th[t].fn) = StatedSize(th[t].fn)
      /\ Writing(t) =>
           /\ Len(RawBytes(t)) = StatedSize(th[t].fn)
           /\ wLength(th[t].fn) = StatedSize(th[t].fn) - 4
           /\ \A o \in PayloadOffsets(th[t].fn) : o < Len(RawBytes(t))

(* ------------------------------------------------------------------ *)
(* Positions and voltages: moves to many destinations, read back        *)
(* ------------------------------------------------------------------ *)
(* destinations d with |d * 8| < 2^31, the largest and the smallest among them *)
MaxDestination == 2^28 - 1
DestinationsWide == {0, 1, -1, 5, -5, 4096, -8193, MaxDestination, -MaxDestination}

(* raw voltages, around the raw value 4965 at which raw * 66 reaches 5 * 65536 *)
VoltageRaws == {0, 1, 4963, 4964, 4965, 4966, 11915, 65535}

(* a controller that has reached its destination: it reports as CurPos the DestPos
   of the last move it was sent (0 before any move), with any of the raw voltages *)
ReachedReplies(t) ==
    LET log == hw[At(_dev, th[t].device)]
        base == CHOOSE r \in StateReplies : r.CurPos = DWord(40)
        pos == IF \E i \in 1..Len(log) : log[i].fn = "usmc_goto"
               THEN LastPkt(log, "usmc_goto").DestPos ELSE DWord(0)
    IN  IF th[t].fn = "usmc_get_state"
        THEN {[base EXCEPT !.CurPos = pos, !.VoltageLo = raw % 256,
                           !.VoltageHi = raw \div 256] : raw \in VoltageRaws}
        ELSE Replies(th[t].fn)

NextState ==
    \E t \in LifeCallers :
      \/ moveToOf(t, DestinationsWide)
      \/ getState(t)
      \/ USMC_lock_ctor(t)
      \/ control_transfer_submit(t)
      \/ control_transfer_completeOf(t, ReachedReplies(t))
      \/ usmc_return(t)

SpecState == InitSeq /\ [][NextState]_vars

(* a getState that returned success from a full reply *)
ReadState(t) ==
    /\ Done(t) /\ th[t].op = "getState" /\ th[t].ret = ERR_SUCCESS
    /\ th[t].fn = "usmc_get_state" /\ th[t].res = wLength("usmc_get_state")

(* C33: a move to d, |d * 8| < 2^31, sends the DestPos d * 8 as a 32-bit two's
   complement value; getState reports the signed raw position divided by 8 towards
   zero; so a position read back from a controller that reports the DestPos of its
   last move is the destination of that move *)
C33_PositionRoundTrip ==
    \A t \in Threads :
      /\ Moving(t) =>
           /\ SignedInt(th[t].pkt.DestPos) = th[t].arg.val * 8
           /\ TruncDiv(SignedInt(th[t].pkt.DestPos), 8) = th[t].arg.val
      /\ ReadState(t) =>
           /\ th[t].state.CurPos = TruncDiv(SignedInt(th[t].reply.CurPos), 8)
           /\ \A i \in 1..Len(hw[At(_dev, th[t].device)]) :
                LET e == hw[At(_dev, th[t].device)][i]
                IN  e.fn = "usmc_goto" /\ e.pkt.DestPos = th[t].reply.CurPos
                      => th[t].state.CurPos * 8 = SignedInt(e.pkt.DestPos)

(* the smallest destination, -(2^28 - 1), read back after the move to it *)
C33_Witness ==
    \E t \in Threads :
      /\ ReadState(t) /\ ncalls = 2 /\ th[t].state.CurPos = -MaxDestination
      /\ \E i \in 1..Len(hw[At(_dev, th[t].device)]) :
           LET e == hw[At(_dev, th[t].device)][i]
           IN  e.fn = "usmc_goto" /\ e.pkt.DestPos = [hi |-> 32768, lo |-> 8]

(* the raw 16-bit voltage of the reply a getState decoded *)
RawVoltage(t) == th[t].reply.VoltageLo + 256 * th[t].reply.VoltageHi

(* C34: the voltage getState reports (in thousandths of a volt) is 0 or at least
   5.0 V, and it is 0 exactly when raw * 66 < 5 * 65536 *)
C34_VoltageFloor ==
    \A t \in Threads :
      ReadState(t) =>
        /\ th[t].state.Voltage = 0 \/ th[t].state.Voltage >= 5000
        /\ th[t].state.Voltage = 0 <=> RawVoltage(t) * 66 < 5 * 65536

(* the two raw values at the threshold: 4964 read as 0, 4965 as 5.0 V *)
C34_Witness ==
    /\ StateVoltageOf(4964) = 0
    /\ \E t \in Threads :
         ReadState(t) /\ RawVoltage(t) = 4965 /\ th[t].state.Voltage = 5000

(* a setParameters that has returned, called on an attached device with a record equal
   to the cached one, which is the record getParameters returns *)
WroteBack(t) ==
    /\ Done(t) /\ th[t].op = "setParameters" /\ th[t].device \in Ids
    /\ th[t].arg # NullOf(ZeroParams)
    /\ th[t].arg.val = At(_params, th[t].device)

(* C35: setParameters with the record getParameters has just returned, the defaults
   after a probe included, passes every check: it returns success unless the transfer
   fails, and the cached record stays what it was *)
C35_ReadBackAccepted ==
    \A t \in Threads :
      WroteBack(t) =>
        th[t].ret \notin {ERR_INVALID_ID, ERR_INVALID_PARAM, ERR_INVALID_VALUE}

(* C36: the SYNCCOUNT field of a mode packet carries the SyncCount of the Mode: a
   SyncCount of 1..65535 is never sent as 0, and a Mode that differs from the one
   sent in its SyncCount only would be sent with a different SYNCCOUNT *)
C36_SyncCountSent ==
    \A t \in Threads :
      SendsMode(t) =>
        /\ th[t].arg.val["SyncCount"] \in 1..65535 => th[t].pkt.SYNCCOUNT # 0
        /\ \A n \in SyncCounts, ub \in Indeterminate :
             n # th[t].arg.val["SyncCount"] =>
               usmc_set_mode_packet([th[t].arg.val EXCEPT !["SyncCount"] = n], ub).SYNCCOUNT
                 # th[t].pkt.SYNCCOUNT

(* ------------------------------------------------------------------ *)
(* A move while another thread configures the device                    *)
(* ------------------------------------------------------------------ *)
(* moveTo up to the switch of usmc_goto: the id is checked, _speed[device] is passed
   by value, *(_start_params[device]) by reference, and usmc_goto reads
   params.SDivisor through it; no lock is held *)
moveTo_call(t) ==
    \E device \in DeviceIds, destination \in Destinations :
      /\ CanCall(t)
      /\ LET c == StartCall("moveTo", device, Ptr(destination))
         IN  Become(t, IF CheckId(device) # ERR_SUCCESS
                       THEN Returned(c, CheckId(device))
                       ELSE [c EXCEPT !.pc = "goto_flags", !.fn = "usmc_goto",
                                      !.pkt = [speed |-> At(_speed, device),
                                               SDivisor |-> At(_start_params,
                                                               device)["SDivisor"]]])
      /\ Leave

(* usmc_goto after the switch: DefDir, LoftEn, SlStart, WSyncIN, SyncOUTR and
   ForceLoft are read through the reference, the packet is complete, and the function
   goes on to its access lock *)
usmc_goto_flags(t) ==
    /\ th[t].pc = "goto_flags"
    /\ \E ub \in Indeterminate, cv \in CastOutcomes :
         LET params == [At(_start_params, th[t].device)
                          EXCEPT !["SDivisor"] = th[t].pkt.SDivisor]
         IN  /\ th' = [th EXCEPT ![t] =
                          EnterUsb(th[t], "usmc_goto", th[t].device,
                                   usmc_goto_packet(th[t].arg.val, th[t].pkt.speed,
                                                    params, ub, cv))]
             /\ Casting(cv, ~FitsU16(usmc_goto_period(th[t].pkt.speed)))
    /\ UNCHANGED <<regVars, bus, _instance, impls, handles, inflight, hw, probe, ncalls>>

NextRace ==
    \E t \in Threads :
      \/ moveTo_call(t) \/ usmc_goto_flags(t)
      \/ setStartParameters(t)
      \/ setSpeed(t)
      \/ UsbStep(t)

SpecRace == InitAttached /\ [][NextRace]_vars

(* C37: the packet of a move is built from one configuration of its device: one of
   the speeds and one of the StartParameters records that the caches have held,
   never the fields of two records *)
C37_OneConfiguration ==
    \A t \in Threads :
      Moving(t) =>
        \E speed \in {DefaultSpeed} \cup SpeedInputs,
           params \in {DefaultStart} \cup StartInputs,
           ub \in Indeterminate, c \in CastOutcomes :
          th[t].pkt = usmc_goto_packet(th[t].arg.val, speed, params, ub, c)

(* C38: a device of the bus is attached at most once: no two ids of the registry hold
   a handle of the same device or the same serial number, however many probes have
   run *)
C38_AttachedOnce ==
    /\ \A c \in Cands : Cardinality(RegisteredOn(c)) <= 1
    /\ \A i, j \in 1..Len(_serial) : _serial[i] = _serial[j] => i = j

====
